---- MODULE Spec2Model ----
(***************************************************************************)
(* capturemd: note store, note lifecycle and media-cache reconciliation.   *)
(*                                                                         *)
(* File names are sequences of tokens; the token "." is the dot of a file  *)
(* name, so <<"x", "y", ".", "mp4">> is the file "xy.mp4" and              *)
(* <<"x", ".", "en", ".", "vtt">> is "x.en.vtt".  A directory is a         *)
(* sequence of path components below the media base directory, each       *)
(* component a sequence of characters.                                     *)
(***************************************************************************)
EXTENDS Integers, Sequences, FiniteSets, TLC

(***************************************************************************)
(* Paths (paths.py)                                                        *)
(***************************************************************************)
YOUTUBE_CACHE_DIR == << <<"yt">> >>
PODCAST_CACHE_DIR == << <<"podcasts">> >>

(***************************************************************************)
(* Sequence helpers                                                        *)
(***************************************************************************)
IsPrefix(s, t) == Len(s) <= Len(t) /\ SubSeq(t, 1, Len(s)) = s

EndsWith(t, s) == Len(s) <= Len(t) /\ SubSeq(t, Len(t) - Len(s) + 1, Len(t)) = s

Range(s) == {s[i] : i \in 1..Len(s)}

(***************************************************************************)
(* pathlib: PurePath.suffix / PurePath.stem / PurePath.parent              *)
(***************************************************************************)
HasSuffix(name) == Len(name) >= 3 /\ name[Len(name) - 1] = "." /\ name[Len(name)] # "."

\* the last dot-separated component, without its dot; <<>> when there is none
Suffix(name) == IF HasSuffix(name) THEN <<name[Len(name)]>> ELSE <<>>

Stem(name) == IF HasSuffix(name) THEN SubSeq(name, 1, Len(name) - 2) ELSE name

FileName(id, ext) == id \o <<".">> \o ext

Path(dir, name) == [dir |-> dir, name |-> name]

(***************************************************************************)
(* The file system: a function from the paths that exist to their content *)
(***************************************************************************)
NoData == [kind |-> "data"]

Exists(f, p) == p \in DOMAIN f

Unlink(f, p) == [q \in (DOMAIN f) \ {p} |-> f[q]]

WriteFile(f, p, c) == [q \in (DOMAIN f) \cup {p} |-> IF q = p THEN c ELSE f[q]]

\* Path.glob("<pattern>") below a directory, non recursive: the files of dir
GlobDir(f, dir) == {p \in DOMAIN f : p.dir = dir}

\* Path.glob("**/<pattern>"): the directory itself and every directory below it
GlobRec(f, dir) == {p \in DOMAIN f : IsPrefix(dir, p.dir)}

(***************************************************************************)
(* cache_manager.py                                                        *)
(***************************************************************************)
VideoExtensions == <<"mp4", "mkv", "webm">>

MediaExtensions == <<"mp4", "mkv", "webm", "mp3", "m4a", "opus">>

\* the suffixes delete_cached_file compares Path.suffix with
AuxSuffixes == {<<"srt">>, <<"nfo">>, <<"description">>, <<"json">>,
                <<"info", ".", "json">>, <<"en", ".", "srt">>, <<"en", ".", "vtt">>}

CachedIdsWithPartials(f) ==
    {Stem(p.name) : p \in {q \in GlobRec(f, YOUTUBE_CACHE_DIR) :
                              \E i \in 1..Len(VideoExtensions) :
                                  EndsWith(q.name, <<".", VideoExtensions[i]>>)}}
      \cup {Stem(Stem(p.name)) : p \in {q \in GlobRec(f, YOUTUBE_CACHE_DIR) :
                                           EndsWith(q.name, <<".", "part">>)}}

\* Path.is_file(): a directory is an entry whose content is DirEntry
DirEntry == [kind |-> "dir"]

IsFile(f, p) == f[p] # DirEntry

CachedIdsFlatOnly(f) ==
    {Stem(p.name) : p \in {q \in GlobDir(f, YOUTUBE_CACHE_DIR) :
                              /\ IsFile(f, q)
                              /\ \E i \in 1..Len(VideoExtensions) :
                                    EndsWith(q.name, <<".", VideoExtensions[i]>>)}}

\* get_youtube_cached_ids: for each extension the glob "*<ext>" of the root and
\* the glob "**/*<ext>", which reaches every directory below the root; of
\* what they yield, the stems of the regular files
get_youtube_cached_ids(f) ==
    {Stem(p.name) : p \in {q \in GlobRec(f, YOUTUBE_CACHE_DIR) :
                              /\ IsFile(f, q)
                              /\ \E i \in 1..Len(VideoExtensions) :
                                    EndsWith(q.name, <<".", VideoExtensions[i]>>)}}

\* get_podcast_cached_ids: stems of all files directly in the podcast directory
get_podcast_cached_ids(f) == {Stem(p.name) : p \in GlobDir(f, PODCAST_CACHE_DIR)}

\* a set of paths as a list, in the order Path.glob yields it: the directory
\* itself first, then the directories below it
RECURSIVE GlobOrder(_, _)
GlobOrder(S, top) ==
    IF S = {} THEN <<>>
    ELSE LET first == IF \E p \in S : p.dir = top
                      THEN CHOOSE p \in S : p.dir = top
                      ELSE CHOOSE p \in S : TRUE
         IN  <<first>> \o GlobOrder(S \ {first}, top)

\* delete_cached_file, lines 425-436: the list all_media_files
RECURSIVE all_media_files(_, _, _, _)
all_media_files(f, file_id, cache_dir, i) ==
    IF i > Len(MediaExtensions) THEN <<>>
    ELSE LET name == FileName(file_id, <<MediaExtensions[i]>>)
             direct_path == Path(cache_dir, name)
             direct == IF Exists(f, direct_path) THEN <<direct_path>> ELSE <<>>
             found == {p \in GlobRec(f, cache_dir) : p.name = name}
         IN  direct \o GlobOrder(found, cache_dir)
                    \o all_media_files(f, file_id, cache_dir, i + 1)

\* parent_dir.glob(f"{file_id}.*")
AuxGlobMutant(f, parent_dir, file_id) ==
    {p \in GlobDir(f, parent_dir) : IsPrefix(file_id, p.name) /\ p.name # file_id}

AuxGlob(f, parent_dir, file_id) ==
    {p \in GlobDir(f, parent_dir) : IsPrefix(file_id \o <<".">>, p.name)}

\* delete_cached_file, lines 453-477: the auxiliary files deleted beside one
\* media file
AuxToDelete(f, parent_dir, file_id) ==
    {p \in AuxGlob(f, parent_dir, file_id) :
        /\ Suffix(p.name) \notin {<<MediaExtensions[i]>> : i \in 1..Len(MediaExtensions)}
        /\ Suffix(p.name) \in AuxSuffixes}

RemoveAll(f, S) == [q \in (DOMAIN f) \ S |-> f[q]]

\* delete_cached_file, lines 443-482: the loop over all_media_files.  unlink of
\* a path that no longer exists raises FileNotFoundError, which the handler of
\* line 480 turns into the result False.
RECURSIVE DeleteLoop(_, _, _, _, _, _)
DeleteLoop(f, list, i, file_id, deleted_any, calls) ==
    IF i > Len(list)
    THEN [fs |-> f, ret |-> deleted_any, raised |-> FALSE, unlinks |-> calls]
    ELSE LET media_file == list[i]
         IN  IF ~Exists(f, media_file)
             THEN [fs |-> f, ret |-> FALSE, raised |-> TRUE,
                   unlinks |-> Append(calls, media_file)]
             ELSE LET f1 == Unlink(f, media_file)
                      f2 == RemoveAll(f1, AuxToDelete(f1, media_file.dir, file_id))
                  IN  DeleteLoop(f2, list, i + 1, file_id, TRUE,
                                 Append(calls, media_file))

delete_cached_file(f, file_id, cache_dir) ==
    LET list == all_media_files(f, file_id, cache_dir, 1)
    IN  IF list = <<>>
        THEN [fs |-> f, ret |-> FALSE, raised |-> FALSE, unlinks |-> <<>>]
        ELSE DeleteLoop(f, list, 1, file_id, FALSE, <<>>)

delete_youtube_video(f, video_id) == delete_cached_file(f, video_id, YOUTUBE_CACHE_DIR)

delete_podcast(f, podcast_id) == delete_cached_file(f, podcast_id, PODCAST_CACHE_DIR)

(***************************************************************************)
(* Metadata returned by the fetcher (yt-dlp --dump-json)                   *)
(***************************************************************************)
\* datetime.now().year as text
CurrentYear == "2026"

\* upload_date: absent or empty ("none"), a valid YYYYMMDD string ("ymd", with
\* its year y and its month and day md), or a non-empty string that strptime
\* rejects ("text", y being its first four characters)
NoDate == [kind |-> "none", y |-> "", md |-> 0]

Ymd(y, md) == [kind |-> "ymd", y |-> y, md |-> md]

TextDate(head) == [kind |-> "text", y |-> head, md |-> 0]

\* the characters create_nfo_file and download_youtube_video replace by "_"
UnsafeChars == {"/", "\\", "?", "*", ":", "\"", "<", ">"}

Sanitize(channel) ==
    [i \in 1..Len(channel) |-> IF channel[i] \in UnsafeChars THEN "_" ELSE channel[i]]

SeasonDir(safe_channel, year) == YOUTUBE_CACHE_DIR \o <<safe_channel, <<year>>>>

ShowDir(safe_channel) == YOUTUBE_CACHE_DIR \o <<safe_channel>>

TvShowNfo == <<"tvshow", ".", "nfo">>

(***************************************************************************)
(* Descriptors                                                             *)
(***************************************************************************)
CreateShowNfoAlways(f, channel_name) ==
    WriteFile(f, Path(ShowDir(channel_name), TvShowNfo),
              [kind |-> "tvshow", title |-> channel_name, year |-> CurrentYear])

\* create_show_nfo: written only when absent
create_show_nfo(f, channel_name) ==
    LET nfo_path == Path(ShowDir(channel_name), TvShowNfo)
    IN  IF Exists(f, nfo_path) THEN f
        ELSE WriteFile(f, nfo_path,
                       [kind |-> "tvshow", title |-> channel_name, year |-> CurrentYear])

\* create_nfo_file, lines 83-99: date_formatted and year
NfoDate(upload_date) == IF upload_date.kind = "ymd" THEN upload_date ELSE NoDate

NfoYear(upload_date) == IF upload_date.kind = "ymd" THEN upload_date.y ELSE CurrentYear

\* the directory create_nfo_file writes the item descriptor into
NfoDir(video_info, create_new_structure) ==
    LET safe_channel == Sanitize(video_info.channel)
        year == NfoYear(video_info.upload_date)
    IN  IF create_new_structure /\ safe_channel # <<>> /\ year # ""
        THEN SeasonDir(safe_channel, year)
        ELSE YOUTUBE_CACHE_DIR

\* mkdirs lists the directories mkdir is called on (lines 124 and 28).
\* create_nfo_file: an episode descriptor in the season directory (with the
\* show descriptor created if absent), else a movie descriptor in the root.
\* io_ok = FALSE is a failure of the write (the except branch of line 186).
create_nfo_file(f, video_id, video_info, create_new_structure, io_ok) ==
    LET safe_channel == Sanitize(video_info.channel)
        year == NfoYear(video_info.upload_date)
        hier == create_new_structure /\ safe_channel # <<>> /\ year # ""
        dir == NfoDir(video_info, create_new_structure)
        f1 == IF hier THEN create_show_nfo(f, safe_channel) ELSE f
        nfo_path == Path(dir, FileName(video_id, <<"nfo">>))
        content == IF hier
                   THEN [kind |-> "episodedetails", id |-> video_id,
                         showtitle |-> video_info.channel, season |-> year,
                         aired |-> NfoDate(video_info.upload_date), episode |-> 0]
                   ELSE [kind |-> "movie", id |-> video_id,
                         showtitle |-> video_info.channel, season |-> "",
                         aired |-> NoDate, episode |-> 0]
        mkdirs == IF hier THEN <<dir, ShowDir(safe_channel)>> ELSE <<>>
    IN  IF io_ok
        THEN [fs |-> WriteFile(f1, nfo_path, content), ok |-> TRUE, mkdirs |-> mkdirs]
        ELSE [fs |-> f1, ok |-> FALSE, mkdirs |-> mkdirs]

(***************************************************************************)
(* download_youtube_video                                                  *)
(***************************************************************************)
DownloadYearEmptyMutant(upload_date) ==
    IF upload_date.kind \in {"ymd", "text"} THEN upload_date.y ELSE ""

\* lines 277-282: the year of the output directory
DownloadYear(upload_date) ==
    IF upload_date.kind \in {"ymd", "text"} THEN upload_date.y ELSE CurrentYear

\* lines 298-318: the directory of the output template
DownloadDir(video_info, use_tv_structure) ==
    LET safe_channel == Sanitize(video_info.channel)
        year == DownloadYear(video_info.upload_date)
    IN  IF use_tv_structure /\ safe_channel # <<>> /\ year # ""
        THEN SeasonDir(safe_channel, year)
        ELSE YOUTUBE_CACHE_DIR

\* what the executable leaves on success: the merged mp4 at the output template
MediaWritten(f, dir, video_id) ==
    WriteFile(f, Path(dir, FileName(video_id, <<"mp4">>)), NoData)

\* lines 345-388 with the fallback of line 370 left out
DownloadAttemptsNoFallback(f, dir, video_id, env) ==
    IF env.full_ok
    THEN [fs |-> MediaWritten(f, dir, video_id), ret |-> TRUE, runs |-> <<"full">>]
    ELSE [fs |-> f, ret |-> FALSE, runs |-> <<"full">>]

\* lines 345-388: the download with subtitles, then at most one fallback
DownloadAttempts(f, dir, video_id, env) ==
    IF env.full_ok
    THEN [fs |-> MediaWritten(f, dir, video_id), ret |-> TRUE, runs |-> <<"full">>]
    ELSE IF env.fallback_ok
         THEN [fs |-> MediaWritten(f, dir, video_id), ret |-> TRUE,
               runs |-> <<"full", "fallback">>]
         ELSE [fs |-> f, ret |-> FALSE, runs |-> <<"full", "fallback">>]

\* the function as its test still expects it: one run of the executable into
\* the flat directory, no metadata fetch
download_youtube_video_single_run(f, video_id, use_tv_structure, env) ==
    LET dl == DownloadAttempts(f, YOUTUBE_CACHE_DIR, video_id, env)
    IN  [fs |-> dl.fs, ret |-> dl.ret, runs |-> dl.runs,
         mkdirs |-> <<YOUTUBE_CACHE_DIR>>]

\* env: the outcomes of the external calls of one invocation:
\*   meta_ok, info       the metadata fetch and the metadata it returns
\*   nfo_ok              the descriptor write
\*   full_ok, fallback_ok  the two download commands
\* runs lists the subprocess.run calls, mkdirs the directories mkdir was called
\* on (line 256 for the cache root, line 304 for the season directory, and the
\* calls of create_nfo_file and create_show_nfo).
download_youtube_video(f, video_id, use_tv_structure, env) ==
    IF ~env.meta_ok
    THEN [fs |-> f, ret |-> FALSE, runs |-> <<"meta">>,
          mkdirs |-> <<YOUTUBE_CACHE_DIR>>]
    ELSE LET dir == DownloadDir(env.info, use_tv_structure)
             hier == dir # YOUTUBE_CACHE_DIR
             nfo == create_nfo_file(f, video_id, env.info, hier, env.nfo_ok)
             dl == DownloadAttempts(nfo.fs, dir, video_id, env)
         IN  [fs |-> dl.fs, ret |-> dl.ret, runs |-> <<"meta">> \o dl.runs,
              mkdirs |-> <<YOUTUBE_CACHE_DIR>> \o (IF hier THEN <<dir>> ELSE <<>>)
                                               \o nfo.mkdirs]

(***************************************************************************)
(* episode_indexer.py                                                      *)
(***************************************************************************)
\* int() of a year written with four digits
YearValue(y) == CASE y = "2023" -> 2023 [] y = "2024" -> 2024 [] y = "2026" -> 2026
                  [] OTHER -> 0

\* datetime.max.year
DATETIME_MAX_YEAR == 9999

\* _extract_episode_info_from_nfo: the sort key, datetime.max when the
\* descriptor has no <aired> tag or its text is not a %Y-%m-%d date
AiredKey(c) ==
    IF c.kind = "episodedetails" /\ c.aired.kind = "ymd"
    THEN YearValue(c.aired.y) * 1000 + c.aired.md
    ELSE DATETIME_MAX_YEAR * 1000 + 999

\* "<episode>" in content
HasEpisodeTag(c) == c.kind \in {"episodedetails", "movie"} /\ c.episode # 0

\* _add_episode_tag: the old tag removed, the new one inserted after the
\* <season> tag, which only an episode descriptor has
AddEpisodeNoRemove(c, episode_num) ==
    IF c.kind = "episodedetails" /\ c.episode = 0
    THEN [c EXCEPT !.episode = episode_num] ELSE c

_add_episode_tag(c, episode_num) ==
    IF c.kind = "episodedetails" THEN [c EXCEPT !.episode = episode_num]
    ELSE IF c.kind = "movie" THEN [c EXCEPT !.episode = 0]
    ELSE c

\* season_dir.glob("*.nfo") without tvshow.nfo
NfoFiles(f, season_dir) ==
    {p \in GlobDir(f, season_dir) : EndsWith(p.name, <<".", "nfo">>) /\ p.name # TvShowNfo}

Perms(S) == {s \in [1..Cardinality(S) -> S] : \A i, j \in 1..Cardinality(S) :
                                                 i # j => s[i] # s[j]}

\* the enumeration order kept as it is: no sort by the key
EnumerationOrders(f, S) == Perms(S)

\* list.sort(key=aired_date) is stable over the order the directory is
\* enumerated in, which is arbitrary: every order sorted by the key can result
SortedOrders(f, S) ==
    {s \in Perms(S) : \A i, j \in 1..Cardinality(S) :
                         i < j => AiredKey(f[s[i]]) <= AiredKey(f[s[j]])}

\* lines 132-142: descriptor number i of the order gets sequence number i
Renumber(f, order) ==
    [p \in DOMAIN f |->
        IF \E i \in 1..Len(order) : order[i] = p
        THEN _add_episode_tag(f[p], CHOOSE i \in 1..Len(order) : order[i] = p)
        ELSE f[p]]

ReindexAlwaysMutant(f, season_dir, force) ==
    IF NfoFiles(f, season_dir) = {} THEN {f}
    ELSE {Renumber(f, order) : order \in SortedOrders(f, NfoFiles(f, season_dir))}

\* _reindex_season: the file systems it can leave
_reindex_season(f, season_dir, force) ==
    LET nfo_files == NfoFiles(f, season_dir)
        needs_reindexing == \E p \in nfo_files : ~HasEpisodeTag(f[p])
    IN  IF nfo_files = {} \/ (~force /\ ~needs_reindexing) THEN {f}
        ELSE {Renumber(f, order) : order \in SortedOrders(f, nfo_files)}

\* the channel/year directories below the cache root (names starting with a
\* dot are skipped)
SeasonDirs(f) ==
    LET n == Len(YOUTUBE_CACHE_DIR)
    IN  {SubSeq(p.dir, 1, n + 2) :
            p \in {q \in GlobRec(f, YOUTUBE_CACHE_DIR) :
                      /\ Len(q.dir) >= n + 2
                      /\ q.dir[n + 1] # <<>> /\ q.dir[n + 1][1] # "."
                      /\ q.dir[n + 2] # <<>> /\ q.dir[n + 2][1] # "."}}

RECURSIVE ReindexSeasons(_, _, _)
ReindexSeasons(F, seasons, force) ==
    IF seasons = {} THEN F
    ELSE LET d == CHOOSE x \in seasons : TRUE
         IN  ReindexSeasons(UNION {_reindex_season(f, d, force) : f \in F},
                            seasons \ {d}, force)

\* reindex_season_episodes / force_reindex_season_episodes: the file systems
\* they can leave
reindex_season_episodes(f) == ReindexSeasons({f}, SeasonDirs(f), FALSE)

force_reindex_season_episodes(f) == ReindexSeasons({f}, SeasonDirs(f), TRUE)

(***************************************************************************)
(* Notes                                                                   *)
(*                                                                         *)
(* notes maps the number of a note file to its parsed frontmatter and body: *)
(* dir is the scope directory holding the file, cache is "true", "false"   *)
(* or "absent" (no cache key).                                             *)
(***************************************************************************)
VARIABLES fs, notes, pc, pass, hist

vars == <<fs, notes, pc, pass, hist>>

NoId == <<>>

NotesIn(dir) == {n \in DOMAIN notes : notes[n].dir = dir}

\* frontmatter.get("cache", default) as a truth value
CacheValue(note, default) ==
    IF note.cache = "absent" THEN default ELSE note.cache = "true"

\* frontmatter.get("cache", True): the default of the other scope
YoutubeCacheDefaultMutant == TRUE

\* manage_youtube_cache, line 548: frontmatter.get("cache", False)
YoutubeCacheDefault == FALSE

\* manage_podcast_cache, line 1033: frontmatter.get("cache", True)
PodcastCacheDefault == TRUE

\* cache_manager.extract_frontmatter, lines 200-215: any exception, a
\* yaml.YAMLError included, is caught and the note has no frontmatter
HasFrontmatter(n) == notes[n].form = "mapping"

\* manage_youtube_cache, lines 541-549: the dictionaries should_cache the loop
\* over the notes can build; a note without frontmatter is skipped; when two
\* notes carry one locator the one enumerated last wins, and the enumeration
\* order is arbitrary
YoutubeShouldCache(video_id) ==
    LET used == {n \in NotesIn("youtube") :
                    /\ HasFrontmatter(n)
                    /\ video_id = NoId \/ notes[n].locator = video_id}
        keys == {notes[n].locator : n \in used}
    IN  {sc \in [keys -> BOOLEAN] :
            \A k \in keys : \E n \in used :
                /\ notes[n].locator = k
                /\ sc[k] = CacheValue(notes[n], YoutubeCacheDefault)}

\* manage_podcast_cache, lines 1027-1034: keyed by the note id
PodcastShouldCache ==
    LET used == {n \in NotesIn("podcast") : HasFrontmatter(n)}
        keys == {notes[n].id : n \in used}
    IN  {sc \in [keys -> BOOLEAN] :
            \A k \in keys : \E n \in used :
                /\ notes[n].id = k
                /\ sc[k] = CacheValue(notes[n], PodcastCacheDefault)}

(***************************************************************************)
(* Reconciliation passes: manage_youtube_cache and manage_podcast_cache,   *)
(* one step per iteration of their loops.                                  *)
(*                                                                         *)
(* pass holds the locals of the running pass; hist records, for the pass,  *)
(* how often delete and download were invoked per locator, whether every   *)
(* external call succeeded, the locators whose download failed, and the    *)
(* outcome of the last step.                                               *)
(***************************************************************************)
Count(b, k) == IF k \in DOMAIN b THEN b[k] ELSE 0

Bump(b, k) == [x \in (DOMAIN b) \cup {k} |-> Count(b, x) + (IF x = k THEN 1 ELSE 0)]

NoBag == [x \in {} |-> 0]

NoStep == [op |-> "none"]

NoPass == [kind |-> "none"]

NoHist == [deleted |-> NoBag, downloaded |-> NoBag, failed |-> {}, ok |-> TRUE,
           touched |-> {}, verified |-> {}, last |-> NoStep]

\* the channel/year directories in which g has a file that f has not, or has
\* with another content
TouchedSeasons(f, g) ==
    {p.dir : p \in {q \in DOMAIN g :
                        /\ q \notin DOMAIN f \/ g[q] # f[q]
                        /\ IsPrefix(YOUTUBE_CACHE_DIR, q.dir)
                        /\ Len(q.dir) = Len(YOUTUBE_CACHE_DIR) + 2}}

\* the outcomes of the external calls of one step
Channels == {<<>>, <<"A">>}

UploadDates == {Ymd("2023", 1), TextDate("2023"), NoDate}

Envs ==
    {[meta_ok |-> FALSE, info |-> [channel |-> <<>>, upload_date |-> NoDate],
      nfo_ok |-> TRUE, full_ok |-> FALSE, fallback_ok |-> FALSE]}
    \cup
    {[meta_ok |-> TRUE, info |-> [channel |-> c, upload_date |-> d],
      nfo_ok |-> TRUE, full_ok |-> a, fallback_ok |-> b] :
        c \in Channels, d \in UploadDates,
        a \in BOOLEAN, b \in {TRUE}}
    \cup
    {[meta_ok |-> TRUE, info |-> [channel |-> c, upload_date |-> d],
      nfo_ok |-> TRUE, full_ok |-> FALSE, fallback_ok |-> FALSE] :
        c \in Channels, d \in UploadDates}
    \cup
    {[meta_ok |-> TRUE, info |-> [channel |-> <<"A">>, upload_date |-> Ymd("2023", 1)],
      nfo_ok |-> FALSE, full_ok |-> TRUE, fallback_ok |-> TRUE]}

StopOnFailureMutant(todo, vid, ret) == IF ret THEN todo \ {vid} ELSE {}

\* the for loops of lines 556-561, 564-615 and 1051-1065: the value a call
\* returns is not looked at, and the exceptions of a call are caught inside
\* it, so the loop goes on with the locators that are left
NextTodo(todo, vid, ret) == todo \ {vid}

AfterFetch(kind, todo) ==
    IF todo # {} THEN "fetch" ELSE IF kind = "youtube" THEN "reindex" ELSE "done"

\* manage_youtube_cache, lines 529-554
BeginYoutubePass(video_id) ==
    /\ pc = "idle"
    /\ \E sc \in YoutubeShouldCache(video_id) :
          LET cached_ids == get_youtube_cached_ids(fs)
          IN  /\ pass' = [kind |-> "youtube", video_id |-> video_id,
                          cached_ids |-> cached_ids, should_cache |-> sc,
                          evict_todo |-> cached_ids, fetch_todo |-> DOMAIN sc]
              /\ pc' = IF cached_ids # {} THEN "evict"
                       ELSE AfterFetch("youtube", DOMAIN sc)
    /\ hist' = NoHist
    /\ UNCHANGED <<fs, notes>>

\* manage_podcast_cache, lines 1013-1048
BeginPodcastPass ==
    /\ pc = "idle"
    /\ \E sc \in PodcastShouldCache :
          LET cached_ids == get_podcast_cached_ids(fs)
          IN  /\ pass' = [kind |-> "podcast", video_id |-> NoId,
                          cached_ids |-> cached_ids, should_cache |-> sc,
                          evict_todo |-> cached_ids, fetch_todo |-> DOMAIN sc]
              /\ pc' = IF cached_ids # {} THEN "evict"
                       ELSE AfterFetch("podcast", DOMAIN sc)
    /\ hist' = NoHist
    /\ UNCHANGED <<fs, notes>>

\* the condition of lines 558-560 (youtube) and 1052 (podcast)
ShouldEvictMutant(p, vid) ==
    /\ vid \notin DOMAIN p.should_cache

\* line 558 left out: the locator of the pass is not looked at
ShouldEvictUnscopedMutant(p, vid) ==
    vid \notin DOMAIN p.should_cache \/ ~p.should_cache[vid]

ShouldEvict(p, vid) ==
    /\ ~(p.video_id # NoId /\ vid # p.video_id)
    /\ (vid \notin DOMAIN p.should_cache \/ ~p.should_cache[vid])

\* one iteration of the loop of lines 557-562 (youtube) or 1051-1054 (podcast)
EvictStep ==
    /\ pc = "evict"
    /\ \E vid \in pass.evict_todo :
          LET r == IF pass.kind = "youtube" THEN delete_youtube_video(fs, vid)
                   ELSE delete_podcast(fs, vid)
              todo == NextTodo(pass.evict_todo, vid, ~ShouldEvict(pass, vid) \/ r.ret)
              found == Range(all_media_files(fs, vid,
                                 IF pass.kind = "youtube" THEN YOUTUBE_CACHE_DIR
                                 ELSE PODCAST_CACHE_DIR, 1))
          IN  /\ pass' = [pass EXCEPT !.evict_todo = todo]
              /\ pc' = IF todo # {} THEN "evict"
                       ELSE AfterFetch(pass.kind, pass.fetch_todo)
              /\ IF ShouldEvict(pass, vid)
                 THEN /\ fs' = r.fs
                      /\ hist' = [hist EXCEPT
                                    !.deleted = Bump(@, vid),
                                    !.last = [op |-> "delete", id |-> vid, ret |-> r.ret,
                                              raised |-> r.raised, unlinks |-> r.unlinks,
                                              found |-> found]]
                 ELSE /\ fs' = fs
                      /\ hist' = [hist EXCEPT !.last = [op |-> "keep", id |-> vid]]
    /\ UNCHANGED notes

\* capture_podcast.download_podcast: one run of the executable, the audio
\* written as <note id>.mp3 into the podcast cache directory
download_podcast(f, note_id, env) ==
    IF env.full_ok
    THEN [fs |-> WriteFile(f, Path(PODCAST_CACHE_DIR, FileName(note_id, <<"mp3">>)), NoData),
          ret |-> TRUE, runs |-> <<"full">>]
    ELSE [fs |-> f, ret |-> FALSE, runs |-> <<"full">>]

\* manage_youtube_cache, lines 571-576: an NFO of the locator anywhere below
\* the cache root
found_nfo(f, vid) ==
    \E p \in GlobRec(f, YOUTUBE_CACHE_DIR) : p.name = FileName(vid, <<"nfo">>)

\* manage_youtube_cache, lines 578-615: the descriptor of a cached video is
\* created from freshly fetched metadata when none is found
VerifyDescriptor(f, vid, env) ==
    IF found_nfo(f, vid) THEN [fs |-> f, ret |-> TRUE, runs |-> <<>>]
    ELSE IF ~env.meta_ok THEN [fs |-> f, ret |-> FALSE, runs |-> <<"meta">>]
    ELSE LET nfo == create_nfo_file(f, vid, env.info, TRUE, env.nfo_ok)
         IN  [fs |-> nfo.fs, ret |-> nfo.ok, runs |-> <<"meta">>]

\* the condition of line 566 (youtube) and 1058 (podcast)
ShouldFetchMutant(p, vid) == p.should_cache[vid]

ShouldFetchOrMutant(p, vid) == p.should_cache[vid] \/ vid \in p.cached_ids

ShouldFetch(p, vid) == p.should_cache[vid] /\ vid \notin p.cached_ids

\* the condition of line 569
ShouldVerify(p, vid) == p.should_cache[vid] /\ vid \in p.cached_ids

\* one iteration of the loop of lines 565-615 (youtube) or 1057-1065 (podcast)
FetchStep ==
    /\ pc = "fetch"
    /\ \E vid \in pass.fetch_todo, env \in Envs :
          LET dl == IF pass.kind = "youtube"
                    THEN download_youtube_video(fs, vid, TRUE, env)
                    ELSE download_podcast(fs, vid, env)
              vf == VerifyDescriptor(fs, vid, env)
              todo == NextTodo(pass.fetch_todo, vid,
                               IF ShouldFetch(pass, vid) THEN dl.ret
                               ELSE IF pass.kind = "youtube" /\ ShouldVerify(pass, vid)
                               THEN vf.ret ELSE TRUE)
          IN  /\ pass' = [pass EXCEPT !.fetch_todo = todo]
              /\ pc' = AfterFetch(pass.kind, todo)
              /\ IF ShouldFetch(pass, vid)
                 THEN /\ fs' = dl.fs
                      /\ hist' = [hist EXCEPT
                                    !.downloaded = Bump(@, vid),
                                    !.ok = @ /\ dl.ret,
                                    !.failed = IF dl.ret THEN @ ELSE @ \cup {vid},
                                    !.touched = @ \cup TouchedSeasons(fs, dl.fs),
                                    !.last = [op |-> "download", id |-> vid,
                                              ret |-> dl.ret, runs |-> dl.runs,
                                              mkdirs |-> IF pass.kind = "youtube"
                                                         THEN dl.mkdirs ELSE <<>>,
                                              env |-> env]]
                 ELSE IF pass.kind = "youtube" /\ ShouldVerify(pass, vid)
                 THEN /\ fs' = vf.fs
                      /\ hist' = [hist EXCEPT
                                    !.ok = @ /\ vf.ret,
                                    !.touched = @ \cup TouchedSeasons(fs, vf.fs),
                                    !.verified = @ \cup {vid},
                                    !.last = [op |-> "verify", id |-> vid,
                                              ret |-> vf.ret, runs |-> vf.runs]]
                 ELSE /\ fs' = fs
                      /\ hist' = [hist EXCEPT !.last = [op |-> "skip", id |-> vid]]
    /\ UNCHANGED notes

\* manage_youtube_cache, lines 617-618: a full pass ends with the non-forced
\* reindex of every season directory
ReindexStep ==
    /\ pc = "reindex"
    /\ IF pass.video_id = NoId
       THEN fs' \in reindex_season_episodes(fs)
       ELSE fs' = fs
    /\ pc' = "done"
    /\ hist' = [hist EXCEPT !.last = [op |-> "reindex",
                                      seasons |-> IF pass.video_id = NoId
                                                  THEN SeasonDirs(fs) ELSE {}]]
    /\ UNCHANGED <<notes, pass>>

(***************************************************************************)
(* Initial states of the reconciliation model: a cache directory as an     *)
(* earlier run, an earlier version (flat layout) or the user left it, and   *)
(* the notes of the locators.                                              *)
(***************************************************************************)
\* the most files one locator has in the initial cache
MaxFilesPerId == 2

X == <<"x">>

XY == <<"x", "y">>

P == <<"p">>

YtIds == {X, XY}

PodIds == {P}

S1 == SeasonDir(<<"A">>, "2023")

EpisodeNfo(id, md) ==
    [kind |-> "episodedetails", id |-> id, showtitle |-> <<"A">>, season |-> "2023",
     aired |-> Ymd("2023", md), episode |-> 0]

MovieNfo(id) ==
    [kind |-> "movie", id |-> id, showtitle |-> <<"A">>, season |-> "",
     aired |-> NoDate, episode |-> 0]

\* the files locator id may have at the start, with their content
Candidates(id, md) ==
    {<<Path(YOUTUBE_CACHE_DIR, FileName(id, <<"mp4">>)), NoData>>,
     <<Path(YOUTUBE_CACHE_DIR, FileName(id, <<"mkv">>)), NoData>>,
     <<Path(YOUTUBE_CACHE_DIR, FileName(id, <<"nfo">>)), MovieNfo(id)>>,
     <<Path(YOUTUBE_CACHE_DIR, FileName(id, <<"en", ".", "vtt">>)), NoData>>,
     <<Path(S1, FileName(id, <<"mp4">>)), NoData>>,
     <<Path(S1, FileName(id, <<"nfo">>)), EpisodeNfo(id, md)>>}

FewCandidates(id, md) ==
    {{},
     {<<Path(YOUTUBE_CACHE_DIR, FileName(id, <<"mp4">>)), NoData>>},
     {<<Path(S1, FileName(id, <<"mp4">>)), NoData>>,
      <<Path(S1, FileName(id, <<"nfo">>)), EpisodeNfo(id, md)>>}}

PodCandidates ==
    {{},
     {<<Path(PODCAST_CACHE_DIR, FileName(P, <<"mp3">>)), NoData>>},
     {<<Path(PODCAST_CACHE_DIR, FileName(P, <<"mp3">>)), NoData>>,
      <<Path(PODCAST_CACHE_DIR, FileName(P, <<"info", ".", "json">>)), NoData>>}}

FsOf(entries) ==
    [p \in {e[1] : e \in entries} |-> (CHOOSE e \in entries : e[1] = p)[2]]

Note(dir, id, locator, cache) ==
    [dir |-> dir, id |-> id, locator |-> locator, cache |-> cache, form |-> "mapping"]

\* note number n is the note of the n-th locator, when it has one
NoteChoices == {"none", "absent", "true", "false"}

NotesOf(cx, cxy, cp) ==
    LET have == {n \in 1..3 : <<cx, cxy, cp>>[n] # "none"}
    IN  [n \in have |->
            CASE n = 1 -> Note("youtube", <<"n", "1">>, X, cx)
              [] n = 2 -> Note("youtube", <<"n", "2">>, XY, cxy)
              [] n = 3 -> Note("podcast", P, NoId, cp)]

Init ==
    /\ \E fx \in {S \in SUBSET Candidates(X, 2) : Cardinality(S) <= MaxFilesPerId},
          fxy \in FewCandidates(XY, 1),
          fp \in PodCandidates :
          fs = FsOf(fx \cup fxy \cup fp)
    /\ \E cx \in NoteChoices, cxy \in {"none", "true"},
          cp \in NoteChoices :
          notes = NotesOf(cx, cxy, cp)
    /\ pc = "idle"
    /\ pass = NoPass
    /\ hist = NoHist

Next ==
    \/ \E video_id \in {NoId} \cup YtIds : BeginYoutubePass(video_id)
    \/ BeginPodcastPass
    \/ EvictStep
    \/ FetchStep
    \/ ReindexStep

Spec == Init /\ [][Next]_vars

(***************************************************************************)
(* Claims                                                                  *)
(***************************************************************************)
\* the locators the pass wants cached: {loc | D[loc] is true}
Desired == {loc \in DOMAIN pass.should_cache : pass.should_cache[loc]}

FullYoutubePassDone == pc = "done" /\ pass.kind = "youtube" /\ pass.video_id = NoId

NoteTrue(loc) ==
    \E n \in NotesIn("youtube") : notes[n].locator = loc /\ notes[n].cache = "true"

\* the locators a pass looks at: all of them, or the one it is scoped to
Covered(loc) == pass.video_id = NoId \/ loc = pass.video_id

YoutubePassDone == pc = "done" /\ pass.kind = "youtube"

YoutubeLocators ==
    YtIds \cup pass.cached_ids \cup {notes[n].locator : n \in NotesIn("youtube")}

C4_EvictFetchDisjoint ==
    /\ (DOMAIN hist.deleted) \cap (DOMAIN hist.downloaded) = {}
    /\ pass.kind # "none" =>
          /\ DOMAIN hist.deleted \subseteq pass.cached_ids
          /\ (DOMAIN hist.downloaded) \cap pass.cached_ids = {}

C4_Witness ==
    /\ pc = "done"
    /\ DOMAIN hist.deleted # {}
    /\ DOMAIN hist.downloaded # {}

Occ(s, x) == Cardinality({i \in 1..Len(s) : s[i] = x})

\* the locator a file name belongs to: the text before its first dot
LocatorOf(name) ==
    IF \E i \in 1..Len(name) : name[i] = "."
    THEN SubSeq(name, 1, (CHOOSE i \in 1..Len(name) :
                             name[i] = "." /\ \A j \in 1..(i - 1) : name[j] # ".") - 1)
    ELSE name

IsMediaOf(p, id) ==
    \E i \in 1..Len(MediaExtensions) : p.name = FileName(id, <<MediaExtensions[i]>>)

PassCacheDir == IF pass.kind = "youtube" THEN YOUTUBE_CACHE_DIR ELSE PODCAST_CACHE_DIR

\* C7: evicting locator L removes only files named L plus an extension, in a
\* directory of the pass's cache tree that holds a media file of L; files of
\* other locators (also those whose name starts with L), files of the other
\* scope's cache directory and the content of every remaining file are
\* unchanged.
C7_EvictionIsolation ==
    [][pc = "evict" =>
          LET L == hist'.last.id
              removed == (DOMAIN fs) \ (DOMAIN fs')
          IN  /\ DOMAIN fs' \subseteq DOMAIN fs
              /\ \A p \in DOMAIN fs' : fs'[p] = fs[p]
              /\ \A p \in removed :
                    /\ IsPrefix(L \o <<".">>, p.name)
                    /\ LocatorOf(p.name) = L
                    /\ IsPrefix(PassCacheDir, p.dir)
                    /\ \E m \in DOMAIN fs : m.dir = p.dir /\ IsMediaOf(m, L)]_vars

\* an eviction of x removed files while files of xy lay in the same directory
\* and the podcast directory held files
C7_Witness ==
    /\ hist.last.op = "delete"
    /\ hist.last.id = X
    /\ pass.kind = "youtube"
    /\ Len(hist.last.unlinks) = 1
    /\ Path(S1, FileName(X, <<"mp4">>)) \in hist.last.found
    /\ Path(S1, FileName(X, <<"nfo">>)) \notin DOMAIN fs
    /\ Path(S1, FileName(XY, <<"nfo">>)) \in DOMAIN fs
    /\ GlobDir(fs, PODCAST_CACHE_DIR) # {}

\* C8: delete_cached_file unlinks each media file it found exactly once,
\* returns True whenever a file was found and deleted, and returns False only
\* when no media file of the locator was found.
C8_DeleteResult ==
    hist.last.op = "delete" =>
        /\ \A m \in hist.last.found : Occ(hist.last.unlinks, m) = 1
        /\ hist.last.ret <=> hist.last.found # {}

YoutubeDownload == hist.last.op = "download" /\ pass.kind = "youtube"

\* C9: for one locator in one pass the download with subtitles runs at most
\* once and the fallback at most once; the fallback runs exactly when the
\* download with subtitles ran and failed; when the fallback fails too the call
\* returns False, and a locator whose download failed is downloaded once and
\* stays out of the cache for the rest of the pass.
C9_OneFallback ==
    /\ YoutubeDownload =>
          /\ Occ(hist.last.runs, "full") <= 1
          /\ Occ(hist.last.runs, "fallback") <= 1
          /\ Occ(hist.last.runs, "fallback") = 1
                <=> (Occ(hist.last.runs, "full") = 1 /\ ~hist.last.env.full_ok)
          /\ (Occ(hist.last.runs, "fallback") = 1 /\ ~hist.last.env.fallback_ok)
                => ~hist.last.ret
    /\ pass.kind = "youtube" =>
          \A vid \in hist.failed :
              /\ Count(hist.downloaded, vid) = 1
              /\ vid \notin get_youtube_cached_ids(fs)

C9_Witness ==
    /\ YoutubeDownload
    /\ hist.last.runs = <<"meta", "full", "fallback">>
    /\ ~hist.last.ret
    /\ hist.last.id \in hist.failed

MaxNotes == 2

LocatorScopes == {"youtube", "github", "reddit", "steam", "hackernews"}

\* paths.py, lines 14-22: the directory of a scope
ScopeDir(note_type) ==
    CASE note_type = "youtube" -> "youtube"
      [] note_type = "github" -> "github"
      [] note_type = "reddit" -> "reddit"
      [] note_type = "steam" -> "steam"
      [] note_type = "hackernews" -> "hn"
      [] OTHER -> "bookmark"

Contains(hay, needle) ==
    \E i \in 0..(Len(hay) - Len(needle)) : SubSeq(hay, i + 1, i + Len(needle)) = needle

Line(key, text) == <<key, ":", " ">> \o text \o <<"\n">>

DecimalDigits == <<"0", "1", "2", "3", "4", "5", "6", "7", "8", "9">>

IsDigit(c, base) == \E i \in 1..base : DecimalDigits[i] = c

DigitValue(c) == (CHOOSE i \in 1..10 : DecimalDigits[i] = c) - 1

RECURSIVE IntOf(_, _)
IntOf(text, base) ==
    IF text = <<>> THEN 0
    ELSE base * IntOf(SubSeq(text, 1, Len(text) - 1), base) + DigitValue(text[Len(text)])

RECURSIVE DecimalText(_)
DecimalText(n) ==
    IF n < 10 THEN <<DecimalDigits[n + 1]>>
    ELSE DecimalText(n \div 10) \o <<DecimalDigits[(n % 10) + 1]>>

\* yaml.safe_load of a plain scalar (YAML 1.1 as PyYAML resolves it): a zero
\* followed by octal digits is an octal integer, decimal digits without a
\* leading zero are an integer, anything else is a string
YamlLoad(text) ==
    IF Len(text) > 1 /\ text[1] = "0" /\ \A i \in 2..Len(text) : IsDigit(text[i], 8)
    THEN [type |-> "int", v |-> IntOf(text, 8)]
    ELSE IF text # <<>> /\ (\A i \in 1..Len(text) : IsDigit(text[i], 10))
            /\ (text[1] # "0" \/ Len(text) = 1)
    THEN [type |-> "int", v |-> IntOf(text, 10)]
    ELSE [type |-> "str", v |-> text]

\* yaml.dump of a scalar: an integer in decimal, a string as it is
YamlDump(value) == IF value.type = "int" THEN DecimalText(value.v) ELSE value.v

\* the truth value Python gives a frontmatter value ("if not locator")
Truthy(value) == IF value.type = "int" THEN value.v # 0 ELSE value.v # <<>>

\* the scopes captured in this model: two of the five locator-keyed branches
\* of create_initial_note, which differ in the directory only, and the default
NoteTypes == {"youtube", "hackernews", "default"}

Locators == {<<"7">>, <<"7", "3">>, <<"0", "7">>}

\* a url in one of two forms (e.g. youtu.be/<id> and watch?v=<id>)
Urls == [form : {"long", "short"}, key : Locators]

UrlText(url) == <<"http", url.form>> \o url.key

\* get_youtube_video_id, get_github_repo_info, get_reddit_thread_info,
\* get_steam_game_info, get_hackernews_item_info: the locator inside the url
ResolveLocator(url, note_type) == IF note_type \in LocatorScopes THEN url.key ELSE NoId

\* the text of a note file, as far as a search for "locator: " can see it
Content(note) ==
    (IF note.locator # NoId THEN Line("locator", note.locator)
                            ELSE Line("url", note.url))
        \o Line("scope", <<note.scope>>) \o note.body

\* check_existing_note: the files of the directory whose text contains
\* "locator: <locator>"; the first one the directory listing yields is returned
check_existing_note(locator, directory) ==
    {n \in NotesIn(directory) :
        Contains(Content(notes[n]), <<"locator", ":", " ">> \o locator)}

ExactMatchMutant(locator, directory) ==
    {n \in NotesIn(directory) : notes[n].locator = locator}

NoCall == [op |-> "none", ret |-> 0]

\* url_processor.py, lines 237-239, and cli.py, line 99: the tags of a capture
\* made without --tags; other tags come with the notes found in the tree
TagChoices == {{"inbox"}}

\* how a note file reads: a mapping between two "---" lines, text between
\* them that yaml.safe_load rejects, a YAML value that is no mapping (a list,
\* a string), or a file that open() cannot read
NoteForms == {"mapping", "invalid_yaml", "not_mapping", "unreadable"}

\* url_processor.py, lines 256-263 and the other templates: the file ends with
\* the closing "---" line, so the body is empty
InitialNote(note_type, note_id, locator, url, tags) ==
    [dir |-> ScopeDir(note_type), id |-> note_id, locator |-> locator,
     url |-> IF locator = NoId THEN UrlText(url) ELSE <<>>,
     scope |-> note_type, cache |-> "absent", parsed |-> FALSE, body |-> <<>>,
     captured |-> IF locator = NoId THEN UrlText(url) ELSE locator,
     form |-> "mapping", tags |-> tags]

CreateOutcome(note_type, locator, ret, wrote) ==
    [op |-> "create", note_type |-> note_type, locator |-> locator, ret |-> ret,
     wrote |-> wrote,
     again |-> /\ hist.last.op = "create"
               /\ hist.last.note_type = note_type
               /\ hist.last.locator = locator,
     first |-> IF hist.last.op = "create" THEN hist.last.ret ELSE 0]

\* the id of the note written last is used again
FixedNoteIdMutant == IF notes = <<>> THEN 1 ELSE Cardinality(DOMAIN notes)

\* url_processor.py, line 235: str(uuid.uuid4()), an id that no note file of
\* the tree has as its name
NewNoteId == Cardinality(DOMAIN notes) + 1

\* url_processor.py, create_initial_note: the note id stands for the uuid
create_initial_note(url, note_type, tags) ==
    LET locator == ResolveLocator(url, note_type)
        existing == IF note_type \in LocatorScopes
                    THEN check_existing_note(locator, ScopeDir(note_type))
                    ELSE {}
        note_id == NewNoteId
    IN  /\ pc = "capture"
        /\ IF existing # {}
           THEN /\ \E existing_file \in existing :
                      hist' = [last |-> CreateOutcome(note_type, locator,
                                                      existing_file, FALSE)]
                /\ notes' = notes
           ELSE /\ Cardinality(DOMAIN notes) < MaxNotes
                /\ notes' = [n \in DOMAIN notes \cup {note_id} |->
                                IF n = note_id
                                THEN InitialNote(note_type, note_id, locator, url, tags)
                                ELSE notes[n]]
                /\ hist' = [last |-> CreateOutcome(note_type, locator, note_id, TRUE)]
        /\ UNCHANGED <<fs, pc, pass>>

\* capture_podcast.py, create_podcast_note (lines 20-102) with a title and a
\* channel: no look at the notes of the directory, a new uuid, and a note
\* written as parsed with cache: true; the body is the blank line before the
\* empty description
create_podcast_note(url) ==
    /\ pc = "capture"
    /\ Cardinality(DOMAIN notes) < MaxNotes
    /\ notes' = [n \in DOMAIN notes \cup {NewNoteId} |->
                    IF n = NewNoteId
                    THEN [InitialNote("podcast", NewNoteId, NoId, url, {"inbox"})
                            EXCEPT !.dir = "podcast", !.cache = "true",
                                   !.parsed = TRUE, !.body = <<"\n">>]
                    ELSE notes[n]]
    /\ hist' = [last |-> CreateOutcome("podcast", NoId, NewNoteId, TRUE)]
    /\ UNCHANGED <<fs, pc, pass>>

\* the value the scope's parser looks at first: locator, or url for bookmarks
ParserKey(note) ==
    IF note.locator # NoId THEN YamlLoad(note.locator) ELSE [type |-> "str", v |-> note.url]

IdentityDumpMutant(value, text) == text

\* save_with_frontmatter: the locator line as yaml.dump writes the loaded value
DumpedLocator(value, text) == IF text = NoId THEN NoId ELSE YamlDump(value)

\* extract_frontmatter, lines 36 and 40: the closing "---\s*\n" of the pattern
\* also takes the whitespace-only lines that follow it, so rest_content starts
\* at the first line of the body that is not blank
RECURSIVE rest_content(_)
rest_content(body) ==
    IF body # <<>> /\ body[1] = "\n" THEN rest_content(Tail(body)) ELSE body

RestContentKeepMutant(body) == body

\* the scopes that have a capture_<scope>.py beside parse_notes.py
ParserScopes == LocatorScopes \cup {"default"}

\* the second element of the parser's result: capture_youtube.py, and
\* capture_reddit.py for a thread with a thumbnail, return
\* "\n![thumbnail](...)\n", capture_steam.py "\n![banner](...)\n\n", the others
\* nothing
additional_content(scope) ==
    CASE scope \in {"youtube", "reddit"} -> <<"\n", "thumbnail", "\n">>
      [] scope = "steam" -> <<"\n", "banner", "\n", "\n">>
      [] OTHER -> <<>>

\* 'tags': ['inbox'] in the update of every scope parser
ParserTags(scope) == {"inbox"}

\* parse_notes.py, lines 166-168: list(set(original_tags + new_tags))
merged_tags(original_tags, new_tags) == original_tags \cup new_tags

MergedTagsMutant(original_tags, new_tags) == new_tags

FindAllMutant(ns) ==
    [raised |-> \E n \in DOMAIN ns : ns[n].form \in {"not_mapping", "unreadable"},
     logged |-> {},
     found |-> {n \in DOMAIN ns : ns[n].form = "mapping"}]

\* find_unparsed_notes, lines 54-76, with locator=None: open() and
\* frontmatter.get() are outside any try, so one unreadable file or one
\* frontmatter that is no mapping ends the scan with an exception;
\* extract_frontmatter turns a yaml.YAMLError into no frontmatter, silently
find_unparsed_notes(ns) ==
    [raised |-> \E n \in DOMAIN ns : ns[n].form \in {"not_mapping", "unreadable"},
     logged |-> {},
     found |-> {n \in DOMAIN ns : ns[n].form = "mapping" /\ ns[n].parsed = FALSE}]

\* parse_notes, lines 205-208: the scan that opens a sweep
BeginSweep ==
    LET scan == find_unparsed_notes(notes)
    IN  /\ pc = "capture"
        /\ hist' = [last |-> [op |-> "sweep", ret |-> 0, raised |-> scan.raised,
                              logged |-> scan.logged,
                              found |-> IF scan.raised THEN {} ELSE scan.found,
                              retried |-> IF hist.last.op = "parse" /\ ~hist.last.ret
                                          THEN {hist.last.id} ELSE {}]]
        /\ IF scan.raised \/ scan.found = {}
           THEN UNCHANGED <<pc, pass>>
           ELSE /\ pc' = "sweep"
                /\ pass' = [kind |-> "sweep", todo |-> scan.found]
        /\ UNCHANGED <<fs, notes>>

SaveAlwaysMutant(n, ok, updated) == [notes EXCEPT ![n] = updated]

\* parse_note, lines 161-184: save_with_frontmatter is reached only when the
\* parser returned a non-empty result; every other path returns False before
\* any write
SavedNotes(n, ok, updated) == IF ok THEN [notes EXCEPT ![n] = updated] ELSE notes

\* parse_notes.py, parse_note (lines 120-202) for one note of the sweep, with
\* the parse_note of the scope's module; info_ok says whether the parser got
\* the metadata of the locator (it raises or returns None otherwise)
parse_note(n, info_ok) ==
    LET note == notes[n]
        key == ParserKey(note)
        ok == /\ note.scope # "none"
              /\ note.scope \in ParserScopes
              /\ Truthy(key)
              /\ info_ok
        updated == [note EXCEPT
                      !.parsed = TRUE,
                      !.locator = DumpedLocator(key, note.locator),
                      !.scope = IF note.scope = "default" THEN "none" ELSE @,
                      !.cache = IF note.scope = "youtube" /\ @ = "absent"
                                THEN "true" ELSE @,
                      !.tags = merged_tags(@, ParserTags(note.scope)),
                      !.body = additional_content(note.scope) \o rest_content(@)]
        todo == pass.todo \ {n}
    IN  /\ pc = "sweep"
        /\ n \in pass.todo
        /\ notes' = SavedNotes(n, ok, updated)
        /\ hist' = [last |-> [op |-> "parse", id |-> n, ret |-> ok, logged |-> ~ok]]
        /\ pass' = IF todo = {} THEN NoPass ELSE [pass EXCEPT !.todo = todo]
        /\ pc' = IF todo = {} THEN "capture" ELSE "sweep"
        /\ UNCHANGED fs

\* a note file that was not written by create_initial_note
ForeignNote ==
    [dir |-> "inbox", id |-> 1, locator |-> NoId, url |-> <<>>, scope |-> "none",
     cache |-> "absent", parsed |-> FALSE, body |-> <<"\n", "text", "\n">>,
     captured |-> <<>>, form |-> "mapping", tags |-> {"later"}]

\* the note files found in the tree before the first capture: none, or one of
\* a note without scope, a note of a scope that has no parser module, an
\* unparsed and a parsed note of a scope, an unparsed video note with a cache
\* line, and the three kinds of bad file
ForeignNotes ==
    {ForeignNote, [ForeignNote EXCEPT !.scope = "unknown"]}
      \cup {[ForeignNote EXCEPT !.scope = "hackernews", !.locator = <<"7">>,
                                !.captured = <<"7">>, !.parsed = p] : p \in BOOLEAN}
      \cup {[ForeignNote EXCEPT !.dir = "youtube", !.scope = "youtube",
                                !.locator = <<"7">>, !.captured = <<"7">>,
                                !.cache = c] : c \in {"true", "false"}}
      \cup {[ForeignNote EXCEPT !.form = form] : form \in NoteForms \ {"mapping"}}

InitNotes ==
    /\ fs = FsOf({})
    /\ notes \in {<<>>} \cup {<<note>> : note \in ForeignNotes}
    /\ pc = "capture"
    /\ pass = NoPass
    /\ hist = [last |-> NoCall]

NextNotes ==
    \/ \E url \in Urls, note_type \in NoteTypes, tags \in TagChoices :
          create_initial_note(url, note_type, tags)
    \/ \E url \in Urls : create_podcast_note(url)
    \/ BeginSweep
    \/ \E n \in DOMAIN notes, info_ok \in BOOLEAN : parse_note(n, info_ok)

SpecNotes == InitNotes /\ [][NextNotes]_vars

NotesFor(note_type, locator) ==
    {n \in NotesIn(ScopeDir(note_type)) : notes[n].locator = locator}

\* C5: in a locator-keyed scope, when create_initial_note is called a second
\* time for the locator of the call before it, exactly one note of the scope
\* directory carries that locator, and the second call writes nothing and
\* returns the path the first call returned.
C5_CaptureTwice ==
    (hist.last.op = "create" /\ hist.last.again
        /\ hist.last.note_type \in LocatorScopes) =>
            /\ ~hist.last.wrote
            /\ hist.last.ret = hist.last.first
            /\ Cardinality(NotesFor(hist.last.note_type, hist.last.locator)) = 1

\* C6: after any sequence of create_initial_note and parse_note calls no scope
\* directory holds two notes with the same locator: two notes captured for
\* one locator whose locator fields read the same.
C6_NoDuplicateLocator ==
    \A n1 \in DOMAIN notes, n2 \in DOMAIN notes :
        (/\ n1 # n2
         /\ notes[n1].dir = notes[n2].dir
         /\ notes[n1].locator # NoId
         /\ notes[n1].captured = notes[n2].captured)
            => notes[n1].locator # notes[n2].locator

MediaDirs(f, vid) == {m.dir : m \in {q \in DOMAIN f : IsMediaOf(q, vid)}}

HasDescriptor(f, dir, vid) == Path(dir, FileName(vid, <<"nfo">>)) \in DOMAIN f

\* C11: when a locator that is cached and desired has no descriptor in the
\* directory of its media file, and the pass fetches its metadata with success,
\* then after that step every directory holding a media file of the locator
\* holds <locator>.nfo, and neither download ran for the locator.
C11_DescriptorBesideMedia ==
    [][(/\ pc = "fetch"
        /\ hist'.last.op = "verify"
        /\ hist'.last.runs = <<"meta">>
        /\ hist'.last.ret
        /\ \A d \in MediaDirs(fs, hist'.last.id) : ~HasDescriptor(fs, d, hist'.last.id))
          => /\ \A d \in MediaDirs(fs', hist'.last.id) :
                    HasDescriptor(fs', d, hist'.last.id)
             /\ Count(hist'.downloaded, hist'.last.id) = 0]_vars

(***************************************************************************)
(* Maintenance of the YouTube cache: the functions that reindex, migrate   *)
(* and regenerate, called one after the other on a cache directory.  In    *)
(* this model hist holds the last call.                                    *)
(***************************************************************************)
\* the most item descriptors the season directory holds at the start
MaxEpisodes == 3

IdNames == <<"a", "b", "c", "d", "e">>

EpisodeIds == {<<IdNames[i]>> : i \in 1..MaxEpisodes}

\* %Y-%m-%d air dates of one year, an air date strptime rejects, no <aired> tag
AiredChoices == {Ymd("2023", 1), Ymd("2023", 5), Ymd("2023", 9), TextDate("2023"), NoDate}

\* the descriptors an item of the season directory can have at the start: an
\* episode descriptor as create_nfo_file wrote it, with the sequence number an
\* earlier reindex gave it (0: none), or a movie descriptor moved there from
\* the flat root
DescriptorChoices(id) ==
    {[kind |-> "episodedetails", id |-> id, showtitle |-> <<"A">>, season |-> "2023",
      aired |-> a, episode |-> e] : a \in AiredChoices, e \in 0..2}
    \cup {MovieNfo(id)}

SeasonChoices ==
    {g \in [EpisodeIds -> {<<>>} \cup UNION {DescriptorChoices(id) : id \in EpisodeIds}] :
        \A id \in EpisodeIds : g[id] = <<>> \/ g[id].id = id}

SeasonFs(g) ==
    FsOf({<<Path(S1, FileName(id, <<"nfo">>)), g[id]>> : id \in {i \in EpisodeIds : g[i] # <<>>}})

InitIndex ==
    /\ \E g \in SeasonChoices : fs = SeasonFs(g)
    /\ notes = <<>>
    /\ pc = "maintain"
    /\ pass = NoPass
    /\ hist = [last |-> NoCall]

\* episode_indexer.force_reindex_season_episodes(YOUTUBE_CACHE_DIR)
ForceReindex ==
    /\ pc = "maintain"
    /\ fs' \in force_reindex_season_episodes(fs)
    /\ hist' = [last |-> [op |-> "force", ret |-> 0]]
    /\ UNCHANGED <<notes, pc, pass>>

\* _reindex_season_episodes: the non-forced reindex of every season
Reindex ==
    /\ pc = "maintain"
    /\ fs' \in reindex_season_episodes(fs)
    /\ hist' = [last |-> [op |-> "reindex", ret |-> 0]]
    /\ UNCHANGED <<notes, pc, pass>>

NextIndex ==
    \/ ForceReindex
    \/ Reindex

SpecIndex == InitIndex /\ [][NextIndex]_vars

Dated(c) == AiredKey(c) < DATETIME_MAX_YEAR * 1000

\* the number of descriptors of the directory aired before descriptor p
AiredBefore(f, nfos, p) == Cardinality({q \in nfos : AiredKey(f[q]) < AiredKey(f[p])})

\* C12: a force reindex numbers the descriptors of a season directory with
\* pairwise distinct parsable air dates 1..N in ascending air-date order,
\* whatever the enumeration order; in any season directory a descriptor with
\* a missing or unparsable air date receives a number, greater than the
\* number of every dated descriptor.
C12_ForceOrder ==
    [][hist'.last.op = "force" =>
          \A d \in SeasonDirs(fs) :
              LET nfos == NfoFiles(fs, d)
              IN  /\ (/\ \A p \in nfos : Dated(fs[p])
                      /\ \A p, q \in nfos : p # q => AiredKey(fs[p]) # AiredKey(fs[q]))
                        => \A p \in nfos : fs'[p].episode = AiredBefore(fs, nfos, p) + 1
                  /\ \A q \in nfos : ~Dated(fs[q]) =>
                        /\ fs'[q].episode > 0
                        /\ \A p \in nfos : Dated(fs[p]) => fs'[p].episode < fs'[q].episode]_vars

\* the part of C12 that holds: dated episode descriptors are numbered in
\* ascending air-date order, descriptors in episode format without a usable
\* air date after them
C12_EpisodeFormatOrder ==
    [][hist'.last.op = "force" =>
          \A d \in SeasonDirs(fs) :
              LET nfos == NfoFiles(fs, d)
              IN  /\ (/\ \A p \in nfos : Dated(fs[p])
                      /\ \A p, q \in nfos : p # q => AiredKey(fs[p]) # AiredKey(fs[q]))
                        => \A p \in nfos : fs'[p].episode = AiredBefore(fs, nfos, p) + 1
                  /\ \A q \in nfos : (~Dated(fs[q]) /\ fs[q].kind = "episodedetails") =>
                        /\ fs'[q].episode > 0
                        /\ \A p \in nfos : Dated(fs[p]) => fs'[p].episode < fs'[q].episode]_vars

AllNumbered(f, d) == \A p \in NfoFiles(f, d) : f[p].episode # 0

\* C13: the non-forced reindex leaves every file of a season directory as it
\* was when each item descriptor of the directory already carries a sequence
\* number, also when the numbers are duplicated, have gaps or are out of
\* air-date order.
C13_ReindexNoOp ==
    [][hist'.last.op = "reindex" =>
          \A d \in SeasonDirs(fs) :
              AllNumbered(fs, d) =>
                  \A p \in GlobDir(fs, d) : p \in DOMAIN fs' /\ fs'[p] = fs[p]]_vars

\* after a non-forced reindex the season directory holds two numbered
\* descriptors with the same number, and a later air date with a smaller number
C13_Witness ==
    /\ hist.last.op = "reindex"
    /\ AllNumbered(fs, S1)
    /\ \E p, q \in NfoFiles(fs, S1) : p # q /\ fs[p].episode = fs[q].episode
    /\ \E p, q \in NfoFiles(fs, S1) :
          /\ Dated(fs[p]) /\ Dated(fs[q])
          /\ AiredKey(fs[p]) < AiredKey(fs[q]) /\ fs[p].episode > fs[q].episode

DistinctKeys(f, d) ==
    \A p, q \in NfoFiles(f, d) : p # q => AiredKey(f[p]) # AiredKey(f[q])

\* C26 as stated: a force reindex has one result, determined by the
\* descriptors' contents whatever the enumeration order, also when two
\* descriptors have equal or missing air dates, and a second force reindex
\* right after it changes no file.
C26_AsStated ==
    [][hist'.last.op = "force" =>
          /\ force_reindex_season_episodes(fs) = {fs'}
          /\ force_reindex_season_episodes(fs') = {fs'}]_vars

\* C26: when the descriptors of every season directory have pairwise distinct
\* sort keys (the air date, the maximal date for a missing or unparsable one),
\* a force reindex has one result whatever the enumeration order, and a
\* second force reindex right after it changes no file.
C26_DistinctKeysDeterministic ==
    [][(hist'.last.op = "force" /\ \A d \in SeasonDirs(fs) : DistinctKeys(fs, d)) =>
          /\ force_reindex_season_episodes(fs) = {fs'}
          /\ force_reindex_season_episodes(fs') = {fs'}]_vars

\* a force reindex has renumbered a season directory of three descriptors
\* with distinct keys, one of them without an air date
C26_Witness ==
    /\ hist.last.op = "force"
    /\ DistinctKeys(fs, S1)
    /\ Cardinality(NfoFiles(fs, S1)) = 3
    /\ \E p \in NfoFiles(fs, S1) : ~Dated(fs[p]) /\ fs[p].episode = 3

ParsedVideoNote(h, ns) ==
    h.last.op = "parse" /\ h.last.ret /\ ns[h.last.id].scope = "youtube"

\* C28: a successful parse of a video note leaves the truth value that
\* manage_youtube_cache reads from its cache line as it was: a note without a
\* cache line is not desired before and not desired after, and an explicit
\* value is kept.
C28_ParseKeepsDesired ==
    [][ParsedVideoNote(hist', notes) =>
          CacheValue(notes'[hist'.last.id], YoutubeCacheDefault)
            = CacheValue(notes[hist'.last.id], YoutubeCacheDefault)]_vars

\* the part of C28 that holds: a cache line the note has is kept by the parse
C28_ExplicitCacheKept ==
    [][(ParsedVideoNote(hist', notes) /\ notes[hist'.last.id].cache # "absent") =>
          notes'[hist'.last.id].cache = notes[hist'.last.id].cache]_vars

\* a video note with cache: false has been parsed
C28_ExplicitParsed ==
    /\ ParsedVideoNote(hist, notes)
    /\ notes[hist.last.id].cache = "false"

\* C14: a note that parse_note has saved as parsed is in no later result of
\* find_unparsed_notes and in no later sweep's work list, parse_note is never
\* called for it again, and no later step changes its file.
C14_ParsedExcluded ==
    [][\A n \in DOMAIN notes :
          (notes[n].form = "mapping" /\ notes[n].parsed) =>
              /\ notes'[n] = notes[n]
              /\ pass'.kind = "sweep" => n \notin pass'.todo
              /\ hist'.last.op = "sweep" => n \notin hist'.last.found
              /\ hist'.last.op = "parse" => hist'.last.id # n]_vars

C14_Witness ==
    /\ hist.last.op = "sweep"
    /\ hist.last.found # {}
    /\ \E n \in DOMAIN notes :
          /\ notes[n].parsed
          /\ notes[n].scope = "youtube"
          /\ notes[n].body = additional_content("youtube")

\* C15: when parse_note succeeds for a note, the saved note has parsed=true,
\* the id and the locator it had before, as tags the union of its previous
\* tags and the parser's tags, and as body the parser's extra content followed
\* by the body it had before.
C15_ParseResult ==
    [][(pc = "sweep" /\ hist'.last.op = "parse" /\ hist'.last.ret) =>
          LET before == notes[hist'.last.id]
              after == notes'[hist'.last.id]
          IN  /\ after.parsed
              /\ after.id = before.id
              /\ after.locator = before.locator
              /\ after.tags = before.tags \cup ParserTags(before.scope)
              /\ after.body = additional_content(before.scope) \o before.body]_vars

\* the part of C15 that holds: parsed, id, tags, and the body counted from its
\* first line that is not blank
C15_ParsedIdTags ==
    [][(pc = "sweep" /\ hist'.last.op = "parse" /\ hist'.last.ret) =>
          LET before == notes[hist'.last.id]
              after == notes'[hist'.last.id]
          IN  /\ after.parsed
              /\ after.id = before.id
              /\ after.tags = before.tags \cup ParserTags(before.scope)
              /\ after.body = additional_content(before.scope) \o rest_content(before.body)]_vars

\* C16: when parse_note fails for a note (no scope, no parser module for the
\* scope, or a parser that raises or returns nothing), the note files are as
\* before and the note still has parsed=false; and the sweep that follows the
\* failed call finds the note again and puts it on its work list.
C16_FailedParseRetried ==
    [][/\ (pc = "sweep" /\ hist'.last.op = "parse" /\ ~hist'.last.ret) =>
              /\ notes' = notes
              /\ ~notes'[hist'.last.id].parsed
       /\ (pc = "capture" /\ hist'.last.op = "sweep") =>
              /\ hist'.last.retried \subseteq hist'.last.found
              /\ hist'.last.retried # {} =>
                    pass'.kind = "sweep" /\ hist'.last.retried \subseteq pass'.todo]_vars

C16_Witness ==
    /\ hist.last.op = "sweep"
    /\ \E n \in hist.last.retried :
          /\ notes[n].scope = "youtube"
          /\ n \in pass.todo
    /\ \E m \in DOMAIN notes : notes[m].scope = "unknown" /\ m \in hist.last.found

\* C20: the scan of a sweep completes whatever the note files are: it returns
\* every well-formed unparsed note, and it logs a parse error for every file
\* whose frontmatter is invalid YAML or no mapping or that cannot be read.
C20_ScanSurvives ==
    hist.last.op = "sweep" =>
        /\ ~hist.last.raised
        /\ hist.last.found =
              {n \in DOMAIN notes : notes[n].form = "mapping" /\ ~notes[n].parsed}
        /\ hist.last.logged = {n \in DOMAIN notes : notes[n].form # "mapping"}

\* the part of C20 that holds: a file with invalid YAML between the "---"
\* lines is skipped and the scan returns every well-formed unparsed note
C20_InvalidYamlSkipped ==
    (hist.last.op = "sweep"
        /\ \A n \in DOMAIN notes : notes[n].form \in {"mapping", "invalid_yaml"}) =>
            /\ ~hist.last.raised
            /\ hist.last.found =
                  {n \in DOMAIN notes : notes[n].form = "mapping" /\ ~notes[n].parsed}

(***************************************************************************)
(* Maintenance of the video library: the cache commands of cli.py (lines   *)
(* 529-542) are regenerate_youtube_nfo_files, convert_flat_structure_to_   *)
(* hierarchical and manage_youtube_cache, whose fetch and verify steps and *)
(* reindex are taken here one call at a time on a small library.           *)
(***************************************************************************)
\* the most files the library holds at the start
MaxLibraryFiles == 3

\* the most maintenance calls made on one library
MaxLibraryCalls == 3

\* Path.rename: the target is replaced when it exists
\* the source removed and no destination written
MoveFileLostMutant(f, p, q) == [r \in (DOMAIN f) \ {p} |-> f[r]]

MoveFile(f, p, q) ==
    [r \in ((DOMAIN f) \ {p}) \cup {q} |-> IF r = q THEN f[p] ELSE f[r]]

\* YOUTUBE_CACHE_DIR.glob(f"{video_id}.*.srt")
SrtFiles(f, video_id) ==
    {p \in GlobDir(f, YOUTUBE_CACHE_DIR) :
        /\ IsPrefix(video_id \o <<".">>, p.name)
        /\ EndsWith(p.name, <<".", "srt">>)
        /\ Len(p.name) >= Len(video_id) + 3}

\* the loop that renames every subtitle file into the season directory
RECURSIVE MoveSubtitles(_, _, _)
MoveSubtitles(f, srt_files, season_dir) ==
    IF srt_files = {} THEN f
    ELSE LET srt_file == CHOOSE p \in srt_files : TRUE
         IN  MoveSubtitles(MoveFile(f, srt_file, Path(season_dir, srt_file.name)),
                           srt_files \ {srt_file}, season_dir)

\* the files of the given extensions among S, extension by extension
RECURSIVE VideoFileList(_, _)
VideoFileList(S, i) ==
    IF i > Len(VideoExtensions) THEN <<>>
    ELSE GlobOrder({p \in S : EndsWith(p.name, <<".", VideoExtensions[i]>>)},
                   YOUTUBE_CACHE_DIR) \o VideoFileList(S, i + 1)

\* video_metadata of lines 664-670: the frontmatter of the note of the locator
HasNote(ns, video_id) == \E n \in DOMAIN ns : ns[n].locator = video_id

NoteOf(ns, video_id) == ns[CHOOSE n \in DOMAIN ns : ns[n].locator = video_id]

\* mkdir of the season directory, create_show_nfo, rename of the video file
MoveVideo(f, video_file, safe_channel, year) ==
    MoveFile(create_show_nfo(f, safe_channel), video_file,
             Path(SeasonDir(safe_channel, year), video_file.name))

\* lines 684-769: the note gives channel and year
MigrateFromNote(f, video_file, video_id, channel, year, env) ==
    LET safe_channel == Sanitize(channel)
        season_dir == SeasonDir(safe_channel, year)
        f1 == MoveVideo(f, video_file, safe_channel, year)
        nfo_path == Path(YOUTUBE_CACHE_DIR, FileName(video_id, <<"nfo">>))
        f2 == IF Exists(f1, nfo_path)
              THEN MoveFile(f1, nfo_path, Path(season_dir, nfo_path.name))
              ELSE IF env.meta_ok
                   THEN create_nfo_file(f1, video_id, env.info, TRUE, env.nfo_ok).fs
                   ELSE f1
    IN  MoveSubtitles(f2, SrtFiles(f2, video_id), season_dir)

\* lines 770-838 and 839-907: channel and year come from the fetched metadata
MigrateFromMetadata(f, video_file, video_id, env) ==
    LET channel == env.info.channel
        year == DownloadYear(env.info.upload_date)
        safe_channel == Sanitize(channel)
        f1 == MoveVideo(f, video_file, safe_channel, year)
        f2 == create_nfo_file(f1, video_id, env.info, TRUE, env.nfo_ok).fs
    IN  IF env.meta_ok /\ channel # <<>> /\ year # ""
        THEN MoveSubtitles(f2, SrtFiles(f2, video_id), SeasonDir(safe_channel, year))
        ELSE f

\* lines 673-907: one video file of the root directory
MigrateOne(f, ns, video_file, env) ==
    LET video_id == Stem(video_file.name)
    IN  IF ~Exists(f, video_file) THEN f
        ELSE IF HasNote(ns, video_id)
                /\ NoteOf(ns, video_id).channel # <<>>
                /\ NoteOf(ns, video_id).year # ""
        THEN MigrateFromNote(f, video_file, video_id, NoteOf(ns, video_id).channel,
                             NoteOf(ns, video_id).year, env)
        ELSE MigrateFromMetadata(f, video_file, video_id, env)

RECURSIVE MigrateLoop(_, _, _, _, _)
MigrateLoop(f, ns, video_files, i, env) ==
    IF i > Len(video_files) THEN f
    ELSE MigrateLoop(MigrateOne(f, ns, video_files[i], env), ns, video_files, i + 1, env)

\* convert_flat_structure_to_hierarchical, lines 623-907
convert_flat_structure_to_hierarchical(f, ns, env) ==
    MigrateLoop(f, ns, VideoFileList(GlobDir(f, YOUTUBE_CACHE_DIR), 1), 1, env)

\* regenerate_youtube_nfo_files, lines 940-975: one video file
RegenerateOne(f, video_file, env) ==
    LET video_id == Stem(video_file.name)
        is_hierarchical == video_file.dir # YOUTUBE_CACHE_DIR
        nfo_path == Path(video_file.dir, FileName(video_id, <<"nfo">>))
    IN  IF Exists(f, nfo_path) \/ ~env.meta_ok THEN f
        ELSE create_nfo_file(f, video_id, env.info, is_hierarchical, env.nfo_ok).fs

RECURSIVE RegenerateLoop(_, _, _, _)
RegenerateLoop(f, video_files, i, env) ==
    IF i > Len(video_files) THEN f
    ELSE RegenerateLoop(RegenerateOne(f, video_files[i], env), video_files, i + 1, env)

\* regenerate_youtube_nfo_files, lines 910-1005
regenerate_youtube_nfo_files(f, env) ==
    RegenerateLoop(f, VideoFileList(GlobRec(f, YOUTUBE_CACHE_DIR), 1), 1, env)

\* the show descriptor an earlier run wrote, in an earlier year
OldShowNfo == [kind |-> "tvshow", title |-> <<"A">>, year |-> "2023"]

LibraryCandidates ==
    {<<Path(YOUTUBE_CACHE_DIR, FileName(X, <<"mp4">>)), NoData>>,
     <<Path(YOUTUBE_CACHE_DIR, FileName(X, <<"mkv">>)), NoData>>,
     <<Path(YOUTUBE_CACHE_DIR, FileName(X, <<"nfo">>)), MovieNfo(X)>>,
     <<Path(YOUTUBE_CACHE_DIR, FileName(X, <<"en", ".", "srt">>)), NoData>>,
     <<Path(S1, FileName(XY, <<"mp4">>)), NoData>>,
     <<Path(S1, FileName(XY, <<"nfo">>)), EpisodeNfo(XY, 1)>>,
     <<Path(ShowDir(<<"A">>), TvShowNfo), OldShowNfo>>}

\* a youtube note as the parser leaves it, with channel and upload year
LibraryNote(channel, year) ==
    [dir |-> "youtube", id |-> <<"n", "1">>, locator |-> X, cache |-> "true",
     channel |-> channel, year |-> year]

LibraryNotes ==
    {<<>>, <<LibraryNote(<<>>, "")>>, <<LibraryNote(<<"A">>, "2023")>>}

\* the outcomes of a metadata fetch and a descriptor write, downloads aside
LibraryEnvs ==
    {env \in Envs : /\ env.full_ok <=> env.meta_ok
                    /\ env.fallback_ok <=> env.meta_ok
                    /\ env.info.channel = <<>> => env.info.upload_date = NoDate}

\* the same with the outcomes of the download: at once, or not at all
FetchEnvs == LibraryEnvs \cup {env \in Envs : /\ env.meta_ok /\ ~env.fallback_ok
                                              /\ env.info.channel # <<>>
                                              /\ env.info.upload_date.kind = "ymd"}

InitLibrary ==
    /\ \E files \in {S \in SUBSET LibraryCandidates : Cardinality(S) <= MaxLibraryFiles} :
          fs = FsOf(files)
    /\ notes \in LibraryNotes
    /\ pc = "library"
    /\ pass = [kind |-> "library", calls |-> 0]
    /\ hist = [last |-> NoCall]

Migrate ==
    /\ pc = "library"
    /\ pass.calls < MaxLibraryCalls
    /\ pass' = [pass EXCEPT !.calls = @ + 1]
    /\ \E env \in LibraryEnvs :
          fs' = convert_flat_structure_to_hierarchical(fs, notes, env)
    /\ hist' = [last |-> [op |-> "migrate", ret |-> 0]]
    /\ UNCHANGED <<notes, pc>>

Regenerate ==
    /\ pc = "library"
    /\ pass.calls < MaxLibraryCalls
    /\ pass' = [pass EXCEPT !.calls = @ + 1]
    /\ \E env \in LibraryEnvs : fs' = regenerate_youtube_nfo_files(fs, env)
    /\ hist' = [last |-> [op |-> "regenerate", ret |-> 0]]
    /\ UNCHANGED <<notes, pc>>

\* manage_youtube_cache, line 567: the download of a locator that is not cached
LibraryFetch ==
    /\ pc = "library"
    /\ pass.calls < MaxLibraryCalls
    /\ pass' = [pass EXCEPT !.calls = @ + 1]
    /\ \E video_id \in YtIds \ get_youtube_cached_ids(fs), env \in FetchEnvs :
          fs' = download_youtube_video(fs, video_id, TRUE, env).fs
    /\ hist' = [last |-> [op |-> "fetch", ret |-> 0]]
    /\ UNCHANGED <<notes, pc>>

\* manage_youtube_cache, lines 569-615: the descriptor check of a cached locator
LibraryVerify ==
    /\ pc = "library"
    /\ pass.calls < MaxLibraryCalls
    /\ pass' = [pass EXCEPT !.calls = @ + 1]
    /\ \E video_id \in get_youtube_cached_ids(fs), env \in LibraryEnvs :
          fs' = VerifyDescriptor(fs, video_id, env).fs
    /\ hist' = [last |-> [op |-> "verify", ret |-> 0]]
    /\ UNCHANGED <<notes, pc>>

\* manage_youtube_cache, line 618, and force_reindex_season_episodes
LibraryReindex ==
    /\ pc = "library"
    /\ pass.calls < MaxLibraryCalls
    /\ pass' = [pass EXCEPT !.calls = @ + 1]
    /\ \E force \in BOOLEAN :
          fs' \in ReindexSeasons({fs}, SeasonDirs(fs), force)
    /\ hist' = [last |-> [op |-> "reindex", ret |-> 0]]
    /\ UNCHANGED <<notes, pc>>

NextLibrary ==
    \/ Migrate
    \/ Regenerate
    \/ LibraryFetch
    \/ LibraryVerify
    \/ LibraryReindex

SpecLibrary == InitLibrary /\ [][NextLibrary]_vars

ShowNfos(f) == {p \in DOMAIN f : p.name = TvShowNfo}

\* C17: a show descriptor (tvshow.nfo) that exists is still there, with the
\* same content, after every fetch, verify, regenerate, migrate and reindex.
C17_ShowNfoKept ==
    [][\A p \in ShowNfos(fs) : p \in DOMAIN fs' /\ fs'[p] = fs[p]]_vars

C17_Witness ==
    /\ hist.last.op = "migrate"
    /\ pass.calls = 1
    /\ Path(ShowDir(<<"A">>), TvShowNfo) \in DOMAIN fs
    /\ fs[Path(ShowDir(<<"A">>), TvShowNfo)] = OldShowNfo
    /\ Path(S1, FileName(X, <<"mp4">>)) \in DOMAIN fs

\* C18: when a youtube pass ends, the episode indexer has run on every season
\* directory in which the pass downloaded media or wrote a descriptor, in a
\* full pass and in a pass scoped to one locator.
C18_TouchedSeasonsReindexed ==
    (pc = "done" /\ pass.kind = "youtube") => hist.touched \subseteq hist.last.seasons

\* the part of C18 that holds: a full pass runs the indexer on every season
\* directory, those it touched included
C18_FullPassReindexes ==
    (pc = "done" /\ pass.kind = "youtube" /\ pass.video_id = NoId) =>
        /\ hist.touched \subseteq hist.last.seasons
        /\ hist.last.seasons = SeasonDirs(fs)

\* C19: when a pass ends, every locator of its evict set has been handed to the
\* delete, every locator of its fetch set to the download and every locator of
\* its verify set to the descriptor check, whatever the calls for the other
\* locators returned, and a full youtube pass has run the episode reindex.
C19_PassContinues ==
    (pc = "done" /\ pass.kind # "none") =>
        /\ \A vid \in pass.cached_ids :
              ShouldEvict(pass, vid) => Count(hist.deleted, vid) = 1
        /\ \A vid \in DOMAIN pass.should_cache :
              /\ ShouldFetch(pass, vid) => Count(hist.downloaded, vid) = 1
              /\ (pass.kind = "youtube" /\ ShouldVerify(pass, vid)) =>
                    vid \in hist.verified
        /\ (pass.kind = "youtube" /\ pass.video_id = NoId) =>
              /\ hist.last.op = "reindex"
              /\ hist.last.seasons = SeasonDirs(fs)

C19_Witness ==
    /\ pc = "done"
    /\ pass.kind = "youtube"
    /\ pass.video_id = NoId
    /\ hist.failed = {X}
    /\ Count(hist.downloaded, XY) = 1
    /\ hist.last.op = "reindex"

(***************************************************************************)
(* Repeated passes: the cache command of cli.py (line 543) run again and   *)
(* again on the cache the run before left, for one locator whose note says *)
(* cache: true.  The cache may start with what a failed or abandoned fetch *)
(* leaves behind: the descriptor written before the download, the partial  *)
(* file of the download, the video stream not yet merged with the audio.   *)
(***************************************************************************)
\* the most files the cache holds before the first pass
MaxLeftovers == 1

RetryCandidates ==
    {<<Path(YOUTUBE_CACHE_DIR, FileName(X, <<"mp4", ".", "part">>)), NoData>>,
     <<Path(S1, FileName(X, <<"mp4", ".", "part">>)), NoData>>,
     <<Path(S1, FileName(X, <<"f137", ".", "mp4">>)), NoData>>,
     <<Path(S1, FileName(X, <<"nfo">>)), EpisodeNfo(X, 1)>>,
     <<Path(YOUTUBE_CACHE_DIR, FileName(X, <<"nfo">>)), MovieNfo(X)>>}

InitRetry ==
    /\ \E files \in {S \in SUBSET RetryCandidates : Cardinality(S) <= MaxLeftovers} :
          fs = FsOf(files)
    /\ notes = NotesOf("true", "none", "none")
    /\ pc = "idle"
    /\ pass = NoPass
    /\ hist = NoHist

\* the command is run again
NextPass ==
    /\ pc = "done"
    /\ pc' = "idle"
    /\ pass' = NoPass
    /\ hist' = NoHist
    /\ UNCHANGED <<fs, notes>>

NextRetry ==
    \/ \E video_id \in {NoId, X} : BeginYoutubePass(video_id)
    \/ EvictStep
    \/ FetchStep
    \/ ReindexStep
    \/ NextPass

SpecRetry == InitRetry /\ [][NextRetry]_vars

\* a download step that ends with the media file written
FetchSucceeds == FetchStep /\ hist'.last.op = "download" /\ hist'.last.ret

\* the command keeps being run, and the download of a locator that is scheduled
\* again and again does succeed at some point
SpecRetryFair == SpecRetry /\ WF_vars(NextRetry) /\ SF_vars(FetchSucceeds)

HasMedia(f, vid) == \E p \in DOMAIN f : IsMediaOf(p, vid)

\* C21: a download that fails leaves the locator out of the cache index; a pass
\* that starts while a desired locator has no media file schedules it for
\* fetch; and when passes are repeated and the download succeeds at some point,
\* the locator ends up cached and stays cached.
C21_RetryUntilCached ==
    /\ [][(pc = "fetch" /\ hist'.last.op = "download" /\ ~hist'.last.ret) =>
              hist'.last.id \notin get_youtube_cached_ids(fs')]_vars
    /\ [][(pc = "idle" /\ pc' # "idle" /\ ~HasMedia(fs, X)) =>
              /\ pc' = "fetch" \/ pc' = "evict"
              /\ X \in pass'.fetch_todo
              /\ ShouldFetch(pass', X)]_vars
    /\ <>[]HasMedia(fs, X)

C21_Witness ==
    /\ HasMedia(fs, X)
    /\ hist.last.op = "download"
    /\ hist.last.id = X
    /\ hist.last.ret
    /\ \E p \in DOMAIN fs : EndsWith(p.name, <<".", "part">>)

OnlyNoteOf(n) ==
    \A m \in NotesIn(notes[n].dir) :
        (notes[m].locator = notes[n].locator /\ notes[m].id = notes[n].id) => m = n

MaxScanEntries == 4

ScanCandidates ==
    {<<Path(YOUTUBE_CACHE_DIR, FileName(X, <<"mp4">>)), NoData>>,
     <<Path(YOUTUBE_CACHE_DIR, FileName(XY, <<"webm">>)), NoData>>,
     <<Path(YOUTUBE_CACHE_DIR, FileName(XY, <<"nfo">>)), MovieNfo(XY)>>,
     <<Path(YOUTUBE_CACHE_DIR, FileName(P, <<"mp4">>)), DirEntry>>,
     <<Path(S1, FileName(X, <<"mkv">>)), NoData>>,
     <<Path(S1, FileName(X, <<"en", ".", "vtt">>)), NoData>>,
     <<Path(ShowDir(<<"A">>), FileName(<<"s">>, <<"mp4">>)), NoData>>,
     <<Path(S1 \o <<<<"extras">>>>, FileName(<<"d">>, <<"mp4">>)), NoData>>}

InitScan ==
    /\ \E entries \in {S \in SUBSET ScanCandidates : Cardinality(S) <= MaxScanEntries} :
          fs = FsOf(entries)
    /\ notes = <<>>
    /\ pc = "scan"
    /\ pass = NoPass
    /\ hist = [last |-> NoCall]

Scan ==
    /\ pc = "scan"
    /\ hist' = [last |-> [op |-> "scan", ret |-> get_youtube_cached_ids(fs)]]
    /\ UNCHANGED <<fs, notes, pc, pass>>

NextScan == Scan

SpecScan == InitScan /\ [][NextScan]_vars

VideoFilesAt(f, dirs) ==
    {p \in DOMAIN f : /\ p.dir \in dirs
                      /\ IsFile(f, p)
                      /\ HasSuffix(p.name)
                      /\ Suffix(p.name) \in {<<"mp4">>, <<"mkv">>, <<"webm">>}}

\* C23 as stated: the index is exactly the set of stems of the regular files
\* with a video extension that lie in the flat root or in a parent/year
\* directory.
C23_AsStated ==
    hist.last.op = "scan" =>
        hist.last.ret =
            {Stem(p.name) :
                p \in VideoFilesAt(fs, {d \in {q.dir : q \in DOMAIN fs} :
                                          \/ d = YOUTUBE_CACHE_DIR
                                          \/ /\ IsPrefix(YOUTUBE_CACHE_DIR, d)
                                             /\ Len(d) = Len(YOUTUBE_CACHE_DIR) + 2})}

\* C23 (amended): the index is exactly the set of stems of the regular files
\* with a video extension that lie in the cache root or in any directory below
\* it, at any depth; a stem present in several places counts once, and
\* directories and other files contribute nothing.
C23_IndexIsStemsBelowRoot ==
    hist.last.op = "scan" =>
        hist.last.ret =
            {Stem(p.name) :
                p \in VideoFilesAt(fs, {d \in {q.dir : q \in DOMAIN fs} :
                                          IsPrefix(YOUTUBE_CACHE_DIR, d)})}

C23_Witness ==
    /\ hist.last.op = "scan"
    /\ hist.last.ret = {X}
    /\ Path(YOUTUBE_CACHE_DIR, FileName(X, <<"mp4">>)) \in DOMAIN fs
    /\ Path(S1, FileName(X, <<"mkv">>)) \in DOMAIN fs
    /\ Path(YOUTUBE_CACHE_DIR, FileName(P, <<"mp4">>)) \in DOMAIN fs

\* C24: after a youtube download step whose metadata fetch and descriptor write
\* succeeded, the descriptor <locator>.nfo lies in the directory of the output
\* template of the download, whatever upload date the metadata carried.
C24_DescriptorInDownloadDir ==
    (pass.kind = "youtube" /\ hist.last.op = "download"
        /\ hist.last.env.meta_ok /\ hist.last.env.nfo_ok) =>
            HasDescriptor(fs, DownloadDir(hist.last.env.info, TRUE), hist.last.id)

\* the part of C24 that holds: an upload date that is a valid date, or none
C24_ValidOrNoDate ==
    (pass.kind = "youtube" /\ hist.last.op = "download"
        /\ hist.last.env.meta_ok /\ hist.last.env.nfo_ok
        /\ hist.last.env.info.upload_date.kind \in {"ymd", "none"}) =>
            HasDescriptor(fs, DownloadDir(hist.last.env.info, TRUE), hist.last.id)

DownloadedNow ==
    pass.kind = "youtube" /\ hist.last.op = "download" /\ hist.last.ret

\* C25 as stated: a downloaded item lies in root/<sanitized parent>/<year>/
\* when the metadata carries a channel and an upload date, and in the flat root
\* when it carries no channel or no upload date.
C25_AsStated ==
    DownloadedNow =>
        LET info == hist.last.env.info
        IN  MediaDirs(fs, hist.last.id) =
                {IF info.channel # <<>> /\ info.upload_date.kind # "none"
                 THEN SeasonDir(Sanitize(info.channel), info.upload_date.y)
                 ELSE YOUTUBE_CACHE_DIR}

\* C25 (amended): a downloaded item lies in root/<sanitized parent>/<year>/
\* exactly when the metadata carries a channel, the year being the first four
\* characters of the upload date and the current year when there is no upload
\* date; it lies in the flat root exactly when the metadata carries no channel.
C25_HierarchicalIffChannel ==
    DownloadedNow =>
        LET info == hist.last.env.info
        IN  MediaDirs(fs, hist.last.id) =
                {IF info.channel # <<>>
                 THEN SeasonDir(Sanitize(info.channel),
                                IF info.upload_date.kind = "none" THEN CurrentYear
                                ELSE info.upload_date.y)
                 ELSE YOUTUBE_CACHE_DIR}

C25_Witness ==
    /\ DownloadedNow
    /\ hist.last.env.info.channel = <<"A">>
    /\ hist.last.env.info.upload_date = NoDate
    /\ MediaDirs(fs, hist.last.id) = {SeasonDir(<<"A">>, CurrentYear)}

(***************************************************************************)
(* Reconciliation of a locator that several note files declare             *)
(***************************************************************************)
\* the note files of locator X: one with the line cache: true, whose
\* frontmatter is a mapping or is rejected by yaml.safe_load, and at most one
\* more, with or without a cache line
DeclaredNotes ==
    {[n \in 1..k |->
         IF n = 1 THEN [Note("youtube", <<"n", "1">>, X, "true") EXCEPT !.form = form]
         ELSE Note("youtube", <<"n", "2">>, X, c)] :
       k \in 1..2, form \in {"mapping", "invalid_yaml"}, c \in {"absent", "true", "false"}}

InitDeclared ==
    /\ \E fx \in {S \in SUBSET Candidates(X, 2) : Cardinality(S) <= MaxFilesPerId} :
          fs = FsOf(fx)
    /\ notes \in DeclaredNotes
    /\ pc = "idle"
    /\ pass = NoPass
    /\ hist = NoHist

NextDeclared ==
    \/ \E video_id \in {NoId, X} : BeginYoutubePass(video_id)
    \/ EvictStep
    \/ FetchStep
    \/ ReindexStep

SpecDeclared == InitDeclared /\ [][NextDeclared]_vars

DeclaredTrue(vid) ==
    {n \in NotesIn("youtube") : notes[n].locator = vid /\ notes[n].cache = "true"}

\* C29: no step of a reconciliation pass removes the last media file of a
\* locator while a note file of the notes directory declares that locator
\* with cache: true, also when the frontmatter of that note does not parse and
\* when a second note of the locator says cache: false.
C29_DeclaredMediaKept ==
    [][(DeclaredTrue(X) # {} /\ HasMedia(fs, X)) => HasMedia(fs', X)]_vars

\* the part of C29 that holds: the media is kept when every note of the
\* locator has a frontmatter that parses and says cache: true
C29_AgreeingNotesKeep ==
    [][(/\ DeclaredTrue(X) # {}
        /\ \A n \in NotesIn("youtube") :
              notes[n].locator = X => (HasFrontmatter(n) /\ notes[n].cache = "true")
        /\ HasMedia(fs, X)) => HasMedia(fs', X)]_vars

\* a pass has looked at the cached media of a locator with two agreeing notes
\* and has kept it
C29_AgreeingKept ==
    /\ Cardinality(DeclaredTrue(X)) = 2
    /\ \A n \in DeclaredTrue(X) : HasFrontmatter(n)
    /\ hist.last.op = "keep" /\ hist.last.id = X
    /\ HasMedia(fs, X)

(***************************************************************************)
(* Full reconciliation passes over a season directory that an earlier pass *)
(* has filled                                                              *)
(***************************************************************************)
\* the media file and the episode descriptor of a locator in the season
\* directory, the descriptor with sequence number e (0: none)
SeasonItem(id, md, e) ==
    {<<Path(S1, FileName(id, <<"mp4">>)), NoData>>,
     <<Path(S1, FileName(id, <<"nfo">>)), [EpisodeNfo(id, md) EXCEPT !.episode = e]>>}

\* the season directory holds none, one or both of XY (aired first) and X,
\* with the numbers 1..N in air-date order that a full pass gave them, or
\* without numbers as passes for one locator leave them
InitSeason ==
    /\ \E have \in SUBSET YtIds, numbered \in BOOLEAN :
          fs = FsOf((IF XY \in have
                     THEN SeasonItem(XY, 1, IF numbered THEN 1 ELSE 0) ELSE {})
                    \cup
                    (IF X \in have
                     THEN SeasonItem(X, 2, IF ~numbered THEN 0
                                           ELSE IF XY \in have THEN 2 ELSE 1)
                     ELSE {}))
    /\ \E cx \in NoteChoices, cxy \in NoteChoices : notes = NotesOf(cx, cxy, "none")
    /\ pc = "idle"
    /\ pass = NoPass
    /\ hist = NoHist

NextSeason ==
    \/ BeginYoutubePass(NoId)
    \/ EvictStep
    \/ FetchStep
    \/ ReindexStep

SpecSeason == InitSeason /\ [][NextSeason]_vars

\* the descriptors of the directory carry the numbers 1..N, a descriptor
\* aired earlier the smaller number
NumberedInOrder(f, d) ==
    LET nfos == NfoFiles(f, d)
    IN  /\ {f[p].episode : p \in nfos} = 1..Cardinality(nfos)
        /\ \A p, q \in nfos : AiredKey(f[p]) < AiredKey(f[q]) => f[p].episode < f[q].episode

\* every download and descriptor creation of the pass returned success and
\* no media of a locator that is not desired is left
AllSucceeded == hist.ok /\ get_youtube_cached_ids(fs) \subseteq Desired

\* C30: at the end of a full pass in which every action succeeded, the item
\* descriptors of every season directory carry exactly the numbers 1..N in
\* ascending air-date order, also when the pass evicted an item of the
\* directory.
C30_SeasonsNumbered ==
    (FullYoutubePassDone /\ AllSucceeded) =>
        \A d \in SeasonDirs(fs) : NumberedInOrder(fs, d)

\* a full pass has evicted the item aired first and has left the other item
\* of the directory with the number 2
C30_GapAfterEviction ==
    /\ FullYoutubePassDone /\ AllSucceeded
    /\ Count(hist.deleted, XY) = 1
    /\ NfoFiles(fs, S1) = {Path(S1, FileName(X, <<"nfo">>))}
    /\ fs[Path(S1, FileName(X, <<"nfo">>))].episode = 2

(***************************************************************************)
(* The sequence field after a force reindex                                *)
(***************************************************************************)
\* C31: after a force reindex every item descriptor of a season directory,
\* a movie-format descriptor that the migration moved there included, carries
\* one sequence number, and the numbers of the directory are pairwise
\* distinct.
C31_EveryDescriptorNumbered ==
    [][hist'.last.op = "force" =>
          \A d \in SeasonDirs(fs') :
              \A p \in NfoFiles(fs', d) :
                  /\ HasEpisodeTag(fs'[p])
                  /\ \A q \in NfoFiles(fs', d) :
                        p # q => fs'[p].episode # fs'[q].episode]_vars

\* the part of C31 that holds: the descriptors in episode format are numbered,
\* with pairwise distinct numbers
C31_EpisodeFormatNumbered ==
    [][hist'.last.op = "force" =>
          \A d \in SeasonDirs(fs') :
              \A p \in NfoFiles(fs', d) :
                  fs'[p].kind = "episodedetails" =>
                      /\ HasEpisodeTag(fs'[p])
                      /\ \A q \in NfoFiles(fs', d) :
                            p # q => fs'[p].episode # fs'[q].episode]_vars

\* a force reindex has left a movie-format descriptor without a number beside
\* two numbered episode descriptors
C31_MovieFormatUnnumbered ==
    /\ hist.last.op = "force"
    /\ \E p \in NfoFiles(fs, S1) : fs[p].kind = "movie" /\ ~HasEpisodeTag(fs[p])
    /\ Cardinality({p \in NfoFiles(fs, S1) : HasEpisodeTag(fs[p])}) = 2

(***************************************************************************)
(* Descriptors and media files at the end of a pass                        *)
(***************************************************************************)
\* the item descriptors <locator>.nfo without a media file of the locator in
\* their directory
OrphanDescriptors(f) ==
    {p \in DOMAIN f :
        \E id \in YtIds :
            /\ p.name = FileName(id, <<"nfo">>)
            /\ ~\E q \in DOMAIN f : q.dir = p.dir /\ IsMediaOf(q, id)}

\* C32: at the end of a reconciliation pass, one in which both downloads of
\* a locator failed included, every item descriptor of the cache has a media
\* file of its locator in its directory.
C32_DescriptorHasMedia ==
    FullYoutubePassDone => OrphanDescriptors(fs) = {}

\* both downloads of locator X have failed and the pass has ended with the
\* descriptor of X in the season directory and no media file of X
C32_OrphanAfterFailedFetch ==
    /\ FullYoutubePassDone
    /\ X \in hist.failed
    /\ ~HasMedia(fs, X)
    /\ Path(S1, FileName(X, <<"nfo">>)) \in OrphanDescriptors(fs)
    /\ Count(hist.deleted, X) = 0

(***************************************************************************)
(* Eviction of a locator with several media files                          *)
(***************************************************************************)
\* the directories that hold a media file of the locator
MediaDirsOf(f, vid) == {p.dir : p \in {q \in DOMAIN f : IsMediaOf(q, vid)}}

\* C33: one eviction of a locator removes every media file it has, in the
\* flat root and in a channel/year directory and with whatever extensions, so
\* that the cache index no longer holds the locator.
C33_EvictionRemovesAll ==
    [][(pass.kind = "youtube" /\ hist'.last.op = "delete") =>
          /\ ~HasMedia(fs', hist'.last.id)
          /\ hist'.last.id \notin get_youtube_cached_ids(fs')]_vars

\* the part of C33 that holds: a locator without a media file in the flat
\* root loses all its media files
C33_HierarchicalRemoved ==
    [][(/\ pass.kind = "youtube" /\ hist'.last.op = "delete"
        /\ YOUTUBE_CACHE_DIR \notin MediaDirsOf(fs, hist'.last.id)) =>
          /\ ~HasMedia(fs', hist'.last.id)
          /\ hist'.last.id \notin get_youtube_cached_ids(fs')]_vars

\* the eviction of a locator with a media file in the flat root and one in
\* the season directory has ended with the second still there
C33_SeasonFileLeft ==
    /\ pass.kind = "youtube" /\ hist.last.op = "delete" /\ hist.last.id = X
    /\ hist.last.raised
    /\ MediaDirsOf(fs, X) = {S1}
    /\ X \in get_youtube_cached_ids(fs)

(***************************************************************************)
(* The note that a capture returns                                         *)
(***************************************************************************)
\* C34: a capture of a locator-keyed scope returns an existing note only when
\* the locator of that note equals the requested locator; when the requested
\* locator is only the beginning of another note's locator, a new note is
\* written.
C34_ExactMatchOnly ==
    (hist.last.op = "create" /\ hist.last.note_type \in LocatorScopes
        /\ ~hist.last.wrote) =>
            notes[hist.last.ret].locator = hist.last.locator

\* a capture of locator 7 has returned the unparsed note of locator 73 and
\* has written nothing
C34_PrefixReturned ==
    /\ hist.last.op = "create" /\ ~hist.last.wrote
    /\ hist.last.locator = <<"7">>
    /\ notes[hist.last.ret].locator = <<"7", "3">>
    /\ ~notes[hist.last.ret].parsed
    /\ NotesFor(hist.last.note_type, <<"7">>) = {}

(***************************************************************************)
(* Captures of the scopes without a locator                                *)
(***************************************************************************)
\* C35: after a capture under the bookmark (default) or the podcast scope the
\* directory holds one note of the captured url: a second capture of the url
\* returns the note of the first and writes none.
C35_OneNotePerUrl ==
    (hist.last.op = "create" /\ hist.last.note_type \notin LocatorScopes) =>
        \A n \in NotesIn(notes[hist.last.ret].dir) :
            n # hist.last.ret => notes[n].captured # notes[hist.last.ret].captured

\* the second capture of a podcast url has written a second note of it
C35_PodcastTwice ==
    /\ hist.last.op = "create" /\ hist.last.note_type = "podcast" /\ hist.last.wrote
    /\ Cardinality({n \in NotesIn("podcast") : notes[n].url = notes[hist.last.ret].url}) = 2

\* the second capture of a bookmark url has written a second note of it
C35_BookmarkTwice ==
    /\ hist.last.op = "create" /\ hist.last.note_type = "default" /\ hist.last.wrote
    /\ Cardinality({n \in NotesIn("bookmark") : notes[n].url = notes[hist.last.ret].url}) = 2

(***************************************************************************)
(* Two capture processes in create_initial_note for one scope and locator  *)
(*                                                                         *)
(* Each process runs the locator-keyed branch of the function: the scan of *)
(* check_existing_note, then, when the scan found nothing, open() and      *)
(* write() of the new file.  Nothing in the code orders the steps of one   *)
(* process against those of the other.                                     *)
(***************************************************************************)
Procs == {1, 2}

InitRace ==
    /\ fs = FsOf({})
    /\ notes \in {<<>>} \cup {<<note>> : note \in ForeignNotes}
    /\ pc = "race"
    /\ \E note_type \in NoteTypes \cap LocatorScopes, locator \in Locators :
          pass = [kind |-> "race", note_type |-> note_type, locator |-> locator,
                  at |-> [p \in Procs |-> "scan"], ret |-> [p \in Procs |-> 0]]
    /\ hist = [last |-> NoCall]

\* url_processor.py, lines 246-250 (youtube) and 347-351 (hackernews): the
\* call of check_existing_note and the return of the note it found
CheckExisting(p) ==
    LET existing == check_existing_note(pass.locator, ScopeDir(pass.note_type))
    IN  /\ pc = "race"
        /\ pass.at[p] = "scan"
        /\ IF existing # {}
           THEN \E existing_file \in existing :
                   pass' = [pass EXCEPT !.at[p] = "returned", !.ret[p] = existing_file]
           ELSE pass' = [pass EXCEPT !.at[p] = "write"]
        /\ hist' = [last |-> [op |-> "scan", ret |-> 0, proc |-> p,
                              found |-> existing # {}]]
        /\ UNCHANGED <<fs, notes, pc>>

\* url_processor.py, lines 253-265 and 354-367: the new file is written
WriteNote(p) ==
    /\ pc = "race"
    /\ pass.at[p] = "write"
    /\ notes' = [n \in DOMAIN notes \cup {NewNoteId} |->
                    IF n = NewNoteId
                    THEN InitialNote(pass.note_type, NewNoteId, pass.locator,
                                     [form |-> "long", key |-> pass.locator], {"inbox"})
                    ELSE notes[n]]
    /\ pass' = [pass EXCEPT !.at[p] = "wrote", !.ret[p] = NewNoteId]
    /\ hist' = [last |-> [op |-> "write", ret |-> NewNoteId, proc |-> p]]
    /\ UNCHANGED <<fs, pc>>

NextRace ==
    \/ \E p \in Procs : CheckExisting(p)
    \/ \E p \in Procs : WriteNote(p)

SpecRace == InitRace /\ [][NextRace]_vars

BothReturned == \A p \in Procs : pass.at[p] \in {"returned", "wrote"}

\* C36: when both processes have returned, in whatever order their scans and
\* writes were interleaved, the directory holds exactly one note of the
\* locator.
C36_OneNoteAfterRace ==
    BothReturned => Cardinality(NotesFor(pass.note_type, pass.locator)) = 1

\* the part of C36 that holds: a scan that runs when the directory holds a
\* note of the locator is not followed by a write
C36_ScanAfterWrite ==
    [][\A p \in Procs :
          (pass.at[p] = "scan" /\ pass'.at[p] # "scan"
              /\ NotesFor(pass.note_type, pass.locator) # {}) =>
                  pass'.at[p] = "returned"]_vars

\* both processes have scanned the empty directory before either wrote, and
\* the directory holds two notes of the locator
C36_BothWrote ==
    /\ \A p \in Procs : pass.at[p] = "wrote"
    /\ pass.ret[1] # pass.ret[2]
    /\ Cardinality(NotesFor(pass.note_type, pass.locator)) = 2
    /\ Cardinality(DOMAIN notes) = 2

(***************************************************************************)
(* The cache index across the migration                                    *)
(***************************************************************************)
\* C37: convert_flat_structure_to_hierarchical leaves the set of locators of
\* the cache index as it was: a media file of the flat root is moved to a
\* channel/year directory under its own name or stays where it is, also when
\* the metadata fetch fails.
C37_MigrationKeepsIndex ==
    [][hist'.last.op = "migrate" =>
          /\ get_youtube_cached_ids(fs') = get_youtube_cached_ids(fs)
          /\ \A p \in GlobDir(fs, YOUTUBE_CACHE_DIR) :
                IsMediaOf(p, X) =>
                    \/ p \in DOMAIN fs'
                    \/ \E q \in DOMAIN fs' :
                          /\ q.name = p.name /\ Len(q.dir) = Len(YOUTUBE_CACHE_DIR) + 2]_vars

\* a migration has moved the two media files of a locator out of the flat
\* root into one season directory
C37_Witness ==
    /\ hist.last.op = "migrate"
    /\ Cardinality({p \in DOMAIN fs : IsMediaOf(p, X)}) = 2
    /\ \A p \in DOMAIN fs : IsMediaOf(p, X) => p.dir = S1

(***************************************************************************)
(* The files of the other locators in a pass for one locator               *)
(***************************************************************************)
\* C38: no step of a pass for locator L removes, writes or changes a file of
\* another locator, a media file, a sidecar or a descriptor, whether or not
\* that locator is desired.
C38_ScopedPassFrame ==
    [][(pass'.kind = "youtube" /\ pass'.video_id # NoId) =>
          \A p \in (DOMAIN fs) \cup (DOMAIN fs') :
              (p.name # TvShowNfo /\ LocatorOf(p.name) # pass'.video_id) =>
                  /\ p \in DOMAIN fs /\ p \in DOMAIN fs'
                  /\ fs'[p] = fs[p]]_vars

\* a pass for x has evicted x and has ended with the media file of xy, which
\* no note asks for, still in the cache
C38_Witness ==
    /\ pc = "done" /\ pass.kind = "youtube" /\ pass.video_id = X
    /\ Count(hist.deleted, X) = 1
    /\ ~HasMedia(fs, X)
    /\ HasMedia(fs, XY)
    /\ ~NoteTrue(XY)

(***************************************************************************)
(* One pass of manage_podcast_cache over a podcast directory with audio    *)
(* files, sidecar files and files of other kinds                           *)
(***************************************************************************)
\* the files of podcast id P the directory can hold: audio of two of the
\* extensions delete_cached_file looks for, audio of another extension, and
\* two sidecar files
PodcastFiles ==
    {Path(PODCAST_CACHE_DIR, FileName(P, ext)) :
        ext \in {<<"mp3">>, <<"m4a">>, <<"ogg">>, <<"description">>,
                 <<"info", ".", "json">>}}

InitPodcast ==
    /\ \E files \in SUBSET PodcastFiles : fs = FsOf({<<p, NoData>> : p \in files})
    /\ \E cp \in NoteChoices : notes = NotesOf("none", "none", cp)
    /\ pc = "idle"
    /\ pass = NoPass
    /\ hist = NoHist

NextPodcast ==
    \/ BeginPodcastPass
    \/ EvictStep
    \/ FetchStep

SpecPodcast == InitPodcast /\ [][NextPodcast]_vars

PodcastPassDone == pc = "done" /\ pass.kind = "podcast"

\* the files of the podcast directory named <id>.<anything>
FilesOfPodcast(f, id) ==
    {p \in GlobDir(f, PODCAST_CACHE_DIR) : LocatorOf(p.name) = id}

\* C39: at the end of a podcast pass in which every download succeeded, a
\* podcast id has files in the podcast directory exactly when its note is
\* desired: the files of an id that is not desired are gone whatever their
\* extension, and a desired id has its audio file, also when it had only
\* sidecar files before.
C39_PodcastConvergence ==
    (PodcastPassDone /\ hist.ok) =>
        \A id \in PodIds :
            /\ FilesOfPodcast(fs, id) # {} <=> id \in Desired
            /\ id \in Desired => \E p \in FilesOfPodcast(fs, id) : IsMediaOf(p, id)

\* the part of C39 that holds: an id that is not desired and has one audio
\* file of a known extension, with or without sidecar files, has no file left
\* after its eviction, and a desired id without any file is downloaded
C39_SingleAudioConverges ==
    /\ [][(/\ pass.kind = "podcast" /\ hist'.last.op = "delete"
            /\ Cardinality({p \in FilesOfPodcast(fs, hist'.last.id) :
                                IsMediaOf(p, hist'.last.id)}) = 1
            /\ \A p \in FilesOfPodcast(fs, hist'.last.id) :
                  IsMediaOf(p, hist'.last.id) \/ Suffix(p.name) \in AuxSuffixes) =>
              FilesOfPodcast(fs', hist'.last.id) = {}]_vars
    /\ [][(/\ pass.kind = "podcast" /\ pc = "fetch" /\ pc' = "done"
            /\ P \in Desired /\ FilesOfPodcast(fs, P) = {} /\ hist'.ok) =>
              \E p \in FilesOfPodcast(fs', P) : IsMediaOf(p, P)]_vars

\* a pass has ended without any download for a desired id that has only a
\* sidecar file
C39_SidecarOnly ==
    /\ PodcastPassDone /\ hist.ok
    /\ P \in Desired
    /\ Count(hist.downloaded, P) = 0
    /\ FilesOfPodcast(fs, P) = {Path(PODCAST_CACHE_DIR, FileName(P, <<"description">>))}

\* a pass has ended with the file of another extension of an id that is not
\* desired still in the directory
C39_OtherExtensionLeft ==
    /\ PodcastPassDone /\ hist.ok
    /\ P \notin Desired
    /\ Path(PODCAST_CACHE_DIR, FileName(P, <<"ogg">>)) \in DOMAIN fs

====
